---- MODULE Spec2Model ----
(***************************************************************************)
(* Configuration profiles of the chat template: the profile store          *)
(* (config_profiles, config_ai_infra, config_mlflow, config_prompts,       *)
(* config_history), ProfileService and ConfigService on top of it, the     *)
(* READ COMMITTED transactions of concurrent set_default_profile calls,    *)
(* and the process-wide settings cache (get_settings / reload_settings).   *)
(***************************************************************************)
EXTENDS Integers, Sequences, FiniteSets, TLC

\* ------------------------------------------------------------------ values

\* Python's None for a string-valued argument or column.
NoneStr == "<None>"
\* Python's None for an integer-valued argument (ids start at 1, so 0 is also
\* what "if copy_from_id:" treats as absent).
NoId == 0
\* Python's None for llm_temperature / llm_max_tokens arguments.
NoneInt == -1

\* Bounds of the sequential model: profile ids ever issued, rows of history.
MaxProfiles == 2
MaxHistory == 3

Names == {"A", "B"}
Descriptions == {NoneStr, "d"}
Users == {"system", "admin"}

\* src/core/defaults.py; llm_temperature is DECIMAL(3,2), kept in hundredths.
DEFAULT_CONFIG ==
    [llm |-> [endpoint |-> "databricks-claude-sonnet-4-5",
              temperature |-> 70,
              max_tokens |-> 2048],
     mlflow |-> [experiment_name |-> "/Workspace/Users/{username}/chat-template-experiments"],
     prompts |-> [system_prompt |-> "You are a helpful AI assistant",
                  user_prompt_template |-> "{question}"]]

\* Inputs of the ConfigService updates: <<llm_endpoint, llm_temperature,
\* llm_max_tokens>>, experiment_name, <<system_prompt,
\* slide_editing_instructions, user_prompt_template>>.
AIInfraInputs ==
    {<<"databricks-e2", NoneInt, NoneInt>>,
     <<NoneStr, 100, NoneInt>>,
     <<NoneStr, 70, NoneInt>>,
     <<"databricks-e2", 100, 1>>,
     <<NoneStr, NoneInt, NoneInt>>}
Experiments == {"/exp2"}
PromptsInputs ==
    {<<"sys2", NoneStr, NoneStr>>,
     <<NoneStr, NoneStr, "Q: {question}">>,
     <<"sys2", "slides", NoneStr>>,
     <<NoneStr, NoneStr, NoneStr>>}

\* ------------------------------------------------------------------- state

VARIABLES
    store,      \* committed rows: profiles, ai_infra, mlflow, prompts, history
    next_id,    \* next value of the config_profiles id sequence
    last,       \* the last service call and its outcome
    txn,        \* per session: the set_default_profile transaction in progress
    cache,      \* the one entry of get_settings' lru_cache, or NoSettings
    active_profile_id,  \* the module global _active_profile_id
    thread,     \* per thread: its get_settings / reload_settings call
    reloaded,   \* the profile of the last reload_settings(p) that returned,
                \* NoId from the moment another reload_settings call starts
    response,   \* the route and HTTP status of the last API request
    catalog,    \* the names the model-serving catalog lists, in its order
    endpoints,  \* the last get_available_endpoints() call and its result
    client_instance,  \* the module global _client_instance
    client_lock,      \* the thread that holds _client_lock, or NoThread
    client_made,      \* the WorkspaceClient objects constructed so far
    client_verified,  \* the clients whose current_user.me() call succeeded
    client_call       \* per thread: its get_databricks_client() call

vars == <<store, next_id, last, txn, cache, active_profile_id, thread, reloaded,
         response, catalog, endpoints, client_instance, client_lock, client_made,
         client_verified, client_call>>

\* The variables outside the profile store and the settings.
client_vars ==
    <<client_instance, client_lock, client_made, client_verified, client_call>>
platform_vars == <<catalog, endpoints, client_vars>>

\* The variables of the settings cache, and those a service call made outside
\* the API and outside a modelled transaction leaves alone.
settings_vars == <<cache, active_profile_id, thread, reloaded>>
concurrent_vars ==
    <<txn, cache, active_profile_id, thread, reloaded, response, platform_vars>>

Threads == {1, 2}

\* The empty lru_cache, and a call without a result.
NoSettings ==
    [profile_id |-> NoId, profile_name |-> NoneStr, endpoint |-> NoneStr,
     temperature |-> NoneInt, max_tokens |-> NoneInt, experiment_name |-> NoneStr,
     system_prompt |-> NoneStr, user_prompt_template |-> NoneStr]

IdleThread ==
    [pc |-> "idle", op |-> "none", arg |-> NoId, target |-> NoId,
     name |-> NoneStr, result |-> NoSettings, out |-> "none", began_after |-> NoId]

Sessions == {1, 2}

IdleTxn ==
    [pc |-> "idle", profile_id |-> NoId, user |-> NoneStr,
     candidates |-> {}, cleared |-> {}, out |-> "none"]

EmptyStore ==
    [profiles |-> {}, ai_infra |-> {}, mlflow |-> {}, prompts |-> {}, history |-> <<>>]

NoResponse == [route |-> "none", status |-> 0]

\* Python's None for _client_instance (clients are numbered from 1), and the
\* free _client_lock.
NoClient == 0
NoThread == 0

IdleClientCall == [pc |-> "idle", got |-> NoClient, out |-> "none"]

\* No get_available_endpoints() call has returned.
NotCalled == [called |-> FALSE, failed |-> FALSE, names |-> <<>>]

NoCall == [op |-> "none", out |-> "none", id |-> NoId, arg |-> NoId]

\* A committed call is recorded with the profile id it acted on (and the source
\* id of a copy), a refused delete with the profile it named, any other failed
\* call with its outcome only.
Call(op, out, id, arg) == [op |-> op, out |-> out, id |-> id, arg |-> arg]

Failed(op, out) == Call(op, out, NoId, NoId)

\* --------------------------------------------------------------- the store

ProfileExists(S, id) == \E p \in S.profiles : p.id = id

ProfileRow(S, id) == CHOOSE p \in S.profiles : p.id = id

AIInfraOf(S, id) == {r \in S.ai_infra : r.profile_id = id}
MLflowOf(S, id) == {r \in S.mlflow : r.profile_id = id}
PromptsOf(S, id) == {r \in S.prompts : r.profile_id = id}

\* The ids get_default_profile may return (.first() of the is_default rows).
DefaultIds(S) == {p.id : p \in {q \in S.profiles : q.is_default}}

HasDefault_Never(S) == FALSE

HasDefault(S) == \E p \in S.profiles : p.is_default

\* get_profile: the profile row with its three joined sub-configs.
HasAllConfigs(S, id) ==
    /\ AIInfraOf(S, id) # {}
    /\ MLflowOf(S, id) # {}
    /\ PromptsOf(S, id) # {}

GetProfile(S, id) ==
    [profile |-> ProfileRow(S, id),
     ai_infra |-> CHOOSE r \in AIInfraOf(S, id) : TRUE,
     mlflow |-> CHOOSE r \in MLflowOf(S, id) : TRUE,
     prompts |-> CHOOSE r \in PromptsOf(S, id) : TRUE]

HistoryRow(profile_id, domain, action, changed_by, changes) ==
    [profile_id |-> profile_id, domain |-> domain, action |-> action,
     changed_by |-> changed_by, changes |-> changes]

AddHistory_Overwrite(S, h) ==
    [S EXCEPT !.history = IF @ = <<>> THEN <<h>> ELSE [@ EXCEPT ![Len(@)] = h]]

\* db.add(history): one more row of config_history.
AddHistory(S, h) == [S EXCEPT !.history = Append(@, h)]

CascadeDelete_KeepHistory(S, id) ==
    [profiles |-> {p \in S.profiles : p.id # id},
     ai_infra |-> {r \in S.ai_infra : r.profile_id # id},
     mlflow |-> {r \in S.mlflow : r.profile_id # id},
     prompts |-> {r \in S.prompts : r.profile_id # id},
     history |-> S.history]

\* db.delete(profile): the ORM cascade "all, delete-orphan" and the foreign
\* keys' ON DELETE CASCADE remove the sub-configs and the history rows.
CascadeDelete(S, id) ==
    [profiles |-> {p \in S.profiles : p.id # id},
     ai_infra |-> {r \in S.ai_infra : r.profile_id # id},
     mlflow |-> {r \in S.mlflow : r.profile_id # id},
     prompts |-> {r \in S.prompts : r.profile_id # id},
     history |-> SelectSeq(S.history, LAMBDA h : h.profile_id # id)]

SessionClose_KeepPending(committed, pending) == pending

\* get_db: the request's session is closed without a commit, which rolls the
\* pending (flushed but uncommitted) rows back.
SessionClose(committed, pending) == committed

\* name is UNIQUE: what the INSERT or UPDATE of a profile row checks.
NameTaken(S, name, except_id) ==
    \E p \in S.profiles : p.name = name /\ p.id # except_id

\* --------------------------------------------------------- ProfileService

NewProfile_Inverted(id, name, description, has_default, user) ==
    [id |-> id, name |-> name, description |-> description,
     is_default |-> has_default, updated_by |-> user]

\* The profile row create_profile adds and flushes.
NewProfile(id, name, description, has_default, user) ==
    [id |-> id, name |-> name, description |-> description,
     is_default |-> ~has_default, updated_by |-> user]

CopyConfigs_StaleEndpoint(S, id, source_id) ==
    LET source == GetProfile(S, source_id)
    IN [S EXCEPT
          !.ai_infra = @ \cup {[profile_id |-> id,
                                llm_endpoint |-> DEFAULT_CONFIG.llm.endpoint,
                                llm_temperature |-> source.ai_infra.llm_temperature,
                                llm_max_tokens |-> source.ai_infra.llm_max_tokens]},
          !.mlflow = @ \cup {[profile_id |-> id,
                              experiment_name |-> source.mlflow.experiment_name]},
          !.prompts = @ \cup {[profile_id |-> id,
                               system_prompt |-> source.prompts.system_prompt,
                               user_prompt_template |-> source.prompts.user_prompt_template]}]

\* The three sub-config rows copied from the source profile.
CopyConfigs(S, id, source_id) ==
    LET source == GetProfile(S, source_id)
    IN [S EXCEPT
          !.ai_infra = @ \cup {[profile_id |-> id,
                                llm_endpoint |-> source.ai_infra.llm_endpoint,
                                llm_temperature |-> source.ai_infra.llm_temperature,
                                llm_max_tokens |-> source.ai_infra.llm_max_tokens]},
          !.mlflow = @ \cup {[profile_id |-> id,
                              experiment_name |-> source.mlflow.experiment_name]},
          !.prompts = @ \cup {[profile_id |-> id,
                               system_prompt |-> source.prompts.system_prompt,
                               user_prompt_template |-> source.prompts.user_prompt_template]}]

DefaultConfigs_NoPrompts(S, id) ==
    [S EXCEPT
       !.ai_infra = @ \cup {[profile_id |-> id,
                             llm_endpoint |-> DEFAULT_CONFIG.llm.endpoint,
                             llm_temperature |-> DEFAULT_CONFIG.llm.temperature,
                             llm_max_tokens |-> DEFAULT_CONFIG.llm.max_tokens]},
       !.mlflow = @ \cup {[profile_id |-> id,
                           experiment_name |-> DEFAULT_CONFIG.mlflow.experiment_name]}]

\* The three sub-config rows built from DEFAULT_CONFIG.
DefaultConfigs(S, id) ==
    [S EXCEPT
       !.ai_infra = @ \cup {[profile_id |-> id,
                             llm_endpoint |-> DEFAULT_CONFIG.llm.endpoint,
                             llm_temperature |-> DEFAULT_CONFIG.llm.temperature,
                             llm_max_tokens |-> DEFAULT_CONFIG.llm.max_tokens]},
       !.mlflow = @ \cup {[profile_id |-> id,
                           experiment_name |-> DEFAULT_CONFIG.mlflow.experiment_name]},
       !.prompts = @ \cup {[profile_id |-> id,
                            system_prompt |-> DEFAULT_CONFIG.prompts.system_prompt,
                            user_prompt_template |-> DEFAULT_CONFIG.prompts.user_prompt_template]}]

\* create_profile: the profile row is flushed first, then the source is looked
\* up through the same session, then everything is committed at once. (The gap
\* a rolled-back INSERT leaves in the id sequence is not modelled.)
\* A source that is the new row itself is found but has no sub-configs.
CreateProfile(name, description, copy_from_id, user) ==
    LET has_default == HasDefault(store)
        profile == NewProfile(next_id, name, description, has_default, user)
        unique == ~NameTaken(store, name, next_id)
        flushed == [store EXCEPT !.profiles = @ \cup {profile}]
        copying == copy_from_id # NoId
        out == CASE ~unique -> "IntegrityError"
                 [] copying /\ ~ProfileExists(flushed, copy_from_id) -> "NotFound"
                 [] copying /\ ~HasAllConfigs(flushed, copy_from_id) -> "AttributeError"
                 [] OTHER -> "ok"
        configured == IF copying THEN CopyConfigs(flushed, next_id, copy_from_id)
                                 ELSE DefaultConfigs(flushed, next_id)
        logged == AddHistory(configured,
                             HistoryRow(next_id, "profile", "create", user,
                                        [name |-> [old |-> NoneStr, new |-> name]]))
    IN /\ store' = CASE out = "ok" -> logged
                     [] out = "IntegrityError" -> SessionClose(store, store)
                     [] OTHER -> SessionClose(store, flushed)
       /\ next_id' = IF out = "ok" THEN next_id + 1 ELSE next_id
       /\ last' = IF out = "ok" THEN Call("create", "ok", next_id, copy_from_id)
                               ELSE Failed("create", out)

\* duplicate_profile: create_profile with copy_from_id = profile_id.
DuplicateProfile(profile_id, new_name, user) ==
    CreateProfile(new_name, "Copy of profile " \o ToString(profile_id), profile_id, user)

ProfileChanges_Provided(profile, name, description) ==
    LET fields == (IF name # NoneStr /\ name # "" THEN {"name"} ELSE {})
                  \cup (IF description # NoneStr THEN {"description"} ELSE {})
    IN [f \in fields |->
          IF f = "name" THEN [old |-> profile.name, new |-> name]
                        ELSE [old |-> profile.description, new |-> description]]

\* The changes map of update_profile: only the fields whose value changed.
ProfileChanges(profile, name, description) ==
    LET fields == (IF name # NoneStr /\ name # "" /\ name # profile.name
                     THEN {"name"} ELSE {})
                  \cup (IF description # NoneStr /\ description # profile.description
                          THEN {"description"} ELSE {})
    IN [f \in fields |->
          IF f = "name" THEN [old |-> profile.name, new |-> name]
                        ELSE [old |-> profile.description, new |-> description]]

UpdateProfile(profile_id, name, description, user) ==
    IF ~ProfileExists(store, profile_id)
    THEN /\ last' = Failed("update", "NotFound")
         /\ UNCHANGED <<store, next_id>>
    ELSE
      LET profile == ProfileRow(store, profile_id)
          changes == ProfileChanges(profile, name, description)
          changed == DOMAIN changes # {}
          updated == [profile EXCEPT
                        !.name = IF "name" \in DOMAIN changes THEN name ELSE @,
                        !.description = IF "description" \in DOMAIN changes
                                          THEN description ELSE @,
                        !.updated_by = IF changed THEN user ELSE @]
          written == [store EXCEPT !.profiles = (@ \ {profile}) \cup {updated}]
          logged == IF changed
                      THEN AddHistory(written,
                                      HistoryRow(profile_id, "profile", "update", user, changes))
                      ELSE written
          unique == ~NameTaken(store, updated.name, profile_id)
      IN /\ store' = IF unique THEN logged ELSE SessionClose(store, store)
         /\ last' = IF unique THEN Call("update", "ok", profile_id, NoId)
                              ELSE Failed("update", "IntegrityError")
         /\ UNCHANGED next_id

\* delete_profile: the delete history row is flushed, then the profile is
\* deleted with its cascade, in the same transaction.
DeleteProfile(profile_id, user) ==
    IF ~ProfileExists(store, profile_id)
    THEN /\ last' = Failed("delete", "NotFound")
         /\ UNCHANGED <<store, next_id>>
    ELSE
      LET profile == ProfileRow(store, profile_id)
          logged == AddHistory(store,
                               HistoryRow(profile_id, "profile", "delete", user,
                                          [name |-> [old |-> profile.name, new |-> NoneStr]]))
      IN IF profile.is_default
         THEN /\ last' = Call("delete", "Forbidden", profile_id, NoId)
              /\ UNCHANGED <<store, next_id>>
         ELSE /\ store' = CascadeDelete(logged, profile_id)
              /\ last' = Call("delete", "ok", profile_id, NoId)
              /\ UNCHANGED next_id

ClearDefaults_None(S) == S

\* UPDATE config_profiles SET is_default = false WHERE is_default = true.
ClearDefaults(S) ==
    [S EXCEPT !.profiles = {[p EXCEPT !.is_default = FALSE] : p \in @}]

SetDefaultProfile_NoEarlyReturn(profile_id, user) ==
    IF ~ProfileExists(store, profile_id)
    THEN /\ last' = Failed("set_default", "NotFound")
         /\ UNCHANGED <<store, next_id>>
    ELSE
      LET profile == ProfileRow(store, profile_id)
          cleared == ClearDefaults(store)
          marked == [profile EXCEPT !.is_default = TRUE, !.updated_by = user]
          written == [cleared EXCEPT !.profiles =
                        {p \in @ : p.id # profile_id} \cup {marked}]
          logged == AddHistory(written,
                               HistoryRow(profile_id, "profile", "set_default", user,
                                          [is_default |-> [old |-> FALSE, new |-> TRUE]]))
      IN /\ store' = logged
         /\ last' = Call("set_default", "ok", profile_id, NoId)
         /\ UNCHANGED next_id

\* set_default_profile: returns early on the default profile, else clears the
\* other defaults, marks the profile and logs, in one commit.
SetDefaultProfile(profile_id, user) ==
    IF ~ProfileExists(store, profile_id)
    THEN /\ last' = Failed("set_default", "NotFound")
         /\ UNCHANGED <<store, next_id>>
    ELSE
      LET profile == ProfileRow(store, profile_id)
          cleared == ClearDefaults(store)
          marked == [profile EXCEPT !.is_default = TRUE, !.updated_by = user]
          written == [cleared EXCEPT !.profiles =
                        {p \in @ : p.id # profile_id} \cup {marked}]
          logged == AddHistory(written,
                               HistoryRow(profile_id, "profile", "set_default", user,
                                          [is_default |-> [old |-> FALSE, new |-> TRUE]]))
      IN IF profile.is_default
         THEN /\ last' = Call("set_default", "noop", profile_id, NoId)
              /\ UNCHANGED <<store, next_id>>
         ELSE /\ store' = logged
              /\ last' = Call("set_default", "ok", profile_id, NoId)
              /\ UNCHANGED next_id

\* ---------------------------------------------------------- ConfigService

\* "user or 'system'".
UserOrSystem(user) == IF user = NoneStr THEN "system" ELSE user

\* "llm_temperature != config.llm_temperature" compares the request's float
\* with the column's Decimal: equal only when the hundredths value is also a
\* binary fraction (0.25, 0.5, 0.75, 1.0), so 0.7 never equals Decimal("0.70").
SameTemperature(new, stored) == new = stored /\ new % 25 = 0

\* The CHECK constraints of config_ai_infra, tested when the row is written.
AIInfraChecks(r) ==
    /\ r.llm_temperature >= 0 /\ r.llm_temperature <= 100
    /\ r.llm_max_tokens > 0

AIInfraChanges(config, llm_endpoint, llm_temperature, llm_max_tokens) ==
    LET fields ==
          (IF llm_endpoint # NoneStr /\ llm_endpoint # config.llm_endpoint
             THEN {"llm_endpoint"} ELSE {})
          \cup (IF llm_temperature # NoneInt
                   /\ ~SameTemperature(llm_temperature, config.llm_temperature)
                  THEN {"llm_temperature"} ELSE {})
          \cup (IF llm_max_tokens # NoneInt /\ llm_max_tokens # config.llm_max_tokens
                  THEN {"llm_max_tokens"} ELSE {})
    IN [f \in fields |->
          CASE f = "llm_endpoint" -> [old |-> config.llm_endpoint, new |-> llm_endpoint]
            [] f = "llm_temperature" -> [old |-> config.llm_temperature, new |-> llm_temperature]
            [] OTHER -> [old |-> config.llm_max_tokens, new |-> llm_max_tokens]]

UpdateAIInfraConfig(profile_id, llm_endpoint, llm_temperature, llm_max_tokens, user) ==
    IF AIInfraOf(store, profile_id) = {}
    THEN /\ last' = Failed("update_ai_infra", "NotFound")
         /\ UNCHANGED <<store, next_id>>
    ELSE
      LET config == CHOOSE r \in AIInfraOf(store, profile_id) : TRUE
          changes == AIInfraChanges(config, llm_endpoint, llm_temperature, llm_max_tokens)
          updated == [config EXCEPT
                        !.llm_endpoint = IF "llm_endpoint" \in DOMAIN changes
                                           THEN llm_endpoint ELSE @,
                        !.llm_temperature = IF "llm_temperature" \in DOMAIN changes
                                              THEN llm_temperature ELSE @,
                        !.llm_max_tokens = IF "llm_max_tokens" \in DOMAIN changes
                                             THEN llm_max_tokens ELSE @]
          written == [store EXCEPT !.ai_infra = (@ \ {config}) \cup {updated}]
          logged == IF DOMAIN changes # {}
                      THEN AddHistory(written,
                                      HistoryRow(profile_id, "ai_infra", "update",
                                                 UserOrSystem(user), changes))
                      ELSE written
          valid == AIInfraChecks(updated)
      IN /\ store' = IF valid THEN logged ELSE SessionClose(store, store)
         /\ last' = IF valid THEN Call("update_ai_infra", "ok", profile_id, NoId)
                             ELSE Failed("update_ai_infra", "IntegrityError")
         /\ UNCHANGED next_id

UpdateMLflowConfig(profile_id, experiment_name, user) ==
    IF MLflowOf(store, profile_id) = {}
    THEN /\ last' = Failed("update_mlflow", "NotFound")
         /\ UNCHANGED <<store, next_id>>
    ELSE
      LET config == CHOOSE r \in MLflowOf(store, profile_id) : TRUE
          changed == experiment_name # config.experiment_name
          updated == [config EXCEPT !.experiment_name = experiment_name]
          written == [store EXCEPT !.mlflow = (@ \ {config}) \cup {updated}]
          logged == IF changed
                      THEN AddHistory(written,
                                      HistoryRow(profile_id, "mlflow", "update", user,
                                                 [experiment_name |->
                                                    [old |-> config.experiment_name,
                                                     new |-> experiment_name]]))
                      ELSE store
      IN /\ store' = logged
         /\ last' = Call("update_mlflow", "ok", profile_id, NoId)
         /\ UNCHANGED next_id

\* system_prompt is logged as "..."; user_prompt_template is logged in full.
PromptsChanges(config, system_prompt, user_prompt_template) ==
    LET fields ==
          (IF system_prompt # NoneStr /\ system_prompt # config.system_prompt
             THEN {"system_prompt"} ELSE {})
          \cup (IF user_prompt_template # NoneStr
                   /\ user_prompt_template # config.user_prompt_template
                  THEN {"user_prompt_template"} ELSE {})
    IN [f \in fields |->
          IF f = "system_prompt"
            THEN [old |-> "...", new |-> "..."]
            ELSE [old |-> config.user_prompt_template, new |-> user_prompt_template]]

\* update_prompts_config: ConfigPrompts has no slide_editing_instructions
\* column, so a given slide_editing_instructions raises AttributeError at the
\* comparison, before anything is committed.
UpdatePromptsConfig(profile_id, system_prompt, slide_editing_instructions, user_prompt_template, user) ==
    IF PromptsOf(store, profile_id) = {}
    THEN /\ last' = Failed("update_prompts", "NotFound")
         /\ UNCHANGED <<store, next_id>>
    ELSE
      LET config == CHOOSE r \in PromptsOf(store, profile_id) : TRUE
          changes == PromptsChanges(config, system_prompt, user_prompt_template)
          updated == [config EXCEPT
                        !.system_prompt = IF "system_prompt" \in DOMAIN changes
                                            THEN system_prompt ELSE @,
                        !.user_prompt_template =
                            IF "user_prompt_template" \in DOMAIN changes
                              THEN user_prompt_template ELSE @]
          written == [store EXCEPT !.prompts = (@ \ {config}) \cup {updated}]
          logged == IF DOMAIN changes # {}
                      THEN AddHistory(written,
                                      HistoryRow(profile_id, "prompts", "update",
                                                 UserOrSystem(user), changes))
                      ELSE written
          pending == [store EXCEPT !.prompts =
                        (@ \ {config}) \cup
                        {[config EXCEPT !.system_prompt =
                            IF "system_prompt" \in DOMAIN changes
                              THEN system_prompt ELSE @]}]
          raised == slide_editing_instructions # NoneStr
      IN /\ store' = IF raised THEN SessionClose(store, pending) ELSE logged
         /\ last' = IF raised THEN Failed("update_prompts", "AttributeError")
                              ELSE Call("update_prompts", "ok", profile_id, NoId)
         /\ UNCHANGED next_id

\* ------------------------------------------------------ sequential services

Init ==
    /\ store = EmptyStore
    /\ next_id = 1
    /\ last = NoCall
    /\ txn = [s \in Sessions |-> IdleTxn]
    /\ cache = NoSettings
    /\ active_profile_id = NoId
    /\ thread = [t \in Threads |-> IdleThread]
    /\ reloaded = NoId
    /\ response = NoResponse
    /\ catalog = <<>>
    /\ endpoints = NotCalled
    /\ client_instance = NoClient
    /\ client_lock = NoThread
    /\ client_made = 0
    /\ client_verified = {}
    /\ client_call = [t \in Threads |-> IdleClientCall]

\* The history table is explored up to MaxHistory rows.
HistoryBound == Len(store'.history) <= MaxHistory

ProfileIds == 1..MaxProfiles

\* Sources of a copy: none, every id the model issues, and one it never issues.
CopySources == 0..(MaxProfiles + 1)

\* The caller takes the outcome of its call; the next call starts after that.
Return ==
    /\ last # NoCall
    /\ last' = NoCall
    /\ UNCHANGED <<store, next_id>>

\* Calls are applied one at a time. The routes pass user = "system";
\* set_default_profile is also called by another user, so that updated_by
\* tells the calls apart.
Next ==
    \/ \E name \in Names, description \in Descriptions,
          copy_from_id \in CopySources :
          /\ last = NoCall
          /\ next_id <= MaxProfiles
          /\ CreateProfile(name, description, copy_from_id, "system")
          /\ HistoryBound
          /\ UNCHANGED concurrent_vars
    \/ \E profile_id \in CopySources, new_name \in Names :
          /\ last = NoCall
          /\ next_id <= MaxProfiles
          /\ DuplicateProfile(profile_id, new_name, "system")
          /\ HistoryBound
          /\ UNCHANGED concurrent_vars
    \/ \E profile_id \in ProfileIds, name \in Names \cup {NoneStr},
          description \in Descriptions :
          /\ last = NoCall
          /\ UpdateProfile(profile_id, name, description, "system")
          /\ HistoryBound
          /\ UNCHANGED concurrent_vars
    \/ \E profile_id \in ProfileIds :
          /\ last = NoCall
          /\ DeleteProfile(profile_id, "system")
          /\ UNCHANGED concurrent_vars
    \/ \E profile_id \in ProfileIds, user \in Users :
          /\ last = NoCall
          /\ SetDefaultProfile(profile_id, user)
          /\ HistoryBound
          /\ UNCHANGED concurrent_vars
    \/ \E profile_id \in ProfileIds, given \in AIInfraInputs :
          /\ last = NoCall
          /\ UpdateAIInfraConfig(profile_id, given[1], given[2], given[3], NoneStr)
          /\ HistoryBound
          /\ UNCHANGED concurrent_vars
    \/ \E profile_id \in ProfileIds, experiment_name \in Experiments :
          /\ last = NoCall
          /\ UpdateMLflowConfig(profile_id, experiment_name, "system")
          /\ HistoryBound
          /\ UNCHANGED concurrent_vars
    \/ \E profile_id \in ProfileIds, given \in PromptsInputs :
          /\ last = NoCall
          /\ UpdatePromptsConfig(profile_id, given[1], given[2], given[3], NoneStr)
          /\ HistoryBound
          /\ UNCHANGED concurrent_vars
    \/ Return /\ UNCHANGED concurrent_vars

Spec == Init /\ [][Next]_vars

\* ------------------------------ concurrent set_default_profile transactions
\* Each request has its own session (get_db); the engine is created without an
\* isolation level, so PostgreSQL runs the statements READ COMMITTED: every
\* statement reads the rows committed when it starts, an UPDATE waits for the
\* row locks of an uncommitted writer and re-tests its WHERE clause on the
\* committed row, and a session's writes are visible to others at its commit.

TxnProfiles == 3
TxnHistory == 5
TxnNames == {"A", "B", "C"}

\* The rows a session has written and not committed, which it holds locked.
LockedBy(s) == IF txn[s].pc = "commit" THEN txn[s].cleared ELSE {}

LockedByOthers(s) == UNION {LockedBy(o) : o \in Sessions \ {s}}

\* A request calls set_default_profile(profile_id, user).
SdCall(s, profile_id, user) ==
    /\ txn[s].pc = "idle"
    /\ txn' = [txn EXCEPT ![s] = [IdleTxn EXCEPT !.pc = "get_profile",
                                                 !.profile_id = profile_id,
                                                 !.user = user]]
    /\ UNCHANGED <<store, next_id, last>>
    /\ UNCHANGED <<settings_vars, response, platform_vars>>

\* profile = self.get_profile(profile_id), and the two early exits.
SdGetProfile(s) ==
    /\ txn[s].pc = "get_profile"
    /\ txn' = [txn EXCEPT ![s] =
                 IF ~ProfileExists(store, txn[s].profile_id)
                   THEN [@ EXCEPT !.pc = "returned", !.out = "NotFound"]
                 ELSE IF ProfileRow(store, txn[s].profile_id).is_default
                   THEN [@ EXCEPT !.pc = "returned", !.out = "noop"]
                 ELSE [@ EXCEPT !.pc = "clear"]]
    /\ UNCHANGED <<store, next_id, last>>
    /\ UNCHANGED <<settings_vars, response, platform_vars>>

\* The bulk UPDATE starts: its snapshot fixes the rows that match is_default.
SdClearScan(s) ==
    /\ txn[s].pc = "clear"
    /\ txn' = [txn EXCEPT ![s].pc = "clearing",
                          ![s].candidates = DefaultIds(store)]
    /\ UNCHANGED <<store, next_id, last>>
    /\ UNCHANGED <<settings_vars, response, platform_vars>>

\* The bulk UPDATE ends: once no other session holds a candidate row, the rows
\* that still match are written (uncommitted) and stay locked.
SdClearRows(s) ==
    /\ txn[s].pc = "clearing"
    /\ txn[s].candidates \cap LockedByOthers(s) = {}
    /\ txn' = [txn EXCEPT ![s].pc = "commit",
                          ![s].cleared = txn[s].candidates \cap DefaultIds(store)]
    /\ UNCHANGED <<store, next_id, last>>
    /\ UNCHANGED <<settings_vars, response, platform_vars>>

\* profile.is_default = True, the history row, and self.db.commit(): the flush
\* writes the profile row (waiting for its lock) and the commit publishes it
\* together with the cleared rows.
SdCommit(s) ==
    /\ txn[s].pc = "commit"
    /\ txn[s].profile_id \notin LockedByOthers(s)
    /\ ProfileExists(store, txn[s].profile_id)
    /\ Len(store.history) < TxnHistory
    /\ store' =
         AddHistory(
           [store EXCEPT !.profiles =
              {IF p.id = txn[s].profile_id
                 THEN [p EXCEPT !.is_default = TRUE, !.updated_by = txn[s].user]
                 ELSE IF p.id \in txn[s].cleared
                   THEN [p EXCEPT !.is_default = FALSE]
                   ELSE p : p \in @}],
           HistoryRow(txn[s].profile_id, "profile", "set_default", txn[s].user,
                      [is_default |-> [old |-> FALSE, new |-> TRUE]]))
    /\ txn' = [txn EXCEPT ![s].pc = "returned", ![s].out = "ok"]
    /\ UNCHANGED <<next_id, last>>
    /\ UNCHANGED <<settings_vars, response, platform_vars>>

\* The response is sent and the session is closed.
SdReturn(s) ==
    /\ txn[s].pc = "returned"
    /\ txn' = [txn EXCEPT ![s] = IdleTxn]
    /\ UNCHANGED <<store, next_id, last>>
    /\ UNCHANGED <<settings_vars, response, platform_vars>>

\* Profiles are created between the concurrent calls, not during them.
TxnNext ==
    \/ \E name \in TxnNames :
          /\ last = NoCall
          /\ \A s \in Sessions : txn[s].pc = "idle"
          /\ next_id <= TxnProfiles
          /\ CreateProfile(name, NoneStr, NoId, "system")
          /\ UNCHANGED concurrent_vars
    \/ Return /\ UNCHANGED concurrent_vars
    \/ \E s \in Sessions, profile_id \in 1..TxnProfiles :
          last = NoCall /\ SdCall(s, profile_id, "system")
    \/ \E s \in Sessions : SdGetProfile(s)
    \/ \E s \in Sessions : SdClearScan(s)
    \/ \E s \in Sessions : SdClearRows(s)
    \/ \E s \in Sessions : SdCommit(s)
    \/ \E s \in Sessions : SdReturn(s)

SpecTxn == Init /\ [][TxnNext]_vars

\* ------------------------------------------------------ the settings cache
\* get_settings is load_settings_from_database() behind functools.lru_cache
\* (maxsize 1, one key): a lookup that hits returns the cached object; one that
\* misses calls the function outside the cache's lock and stores the result
\* afterwards, unless the key has been stored in the meantime.

CacheProfiles == 2
CacheHistory == 4

\* client.current_user.me().user_name, or $USER, or this fallback.
Username == "default_user"

\* experiment_name.format(username=username) when "{username}" occurs in it.
FormatExperiment(experiment_name) ==
    IF experiment_name = "/Workspace/Users/{username}/chat-template-experiments"
      THEN "/Workspace/Users/" \o Username \o "/chat-template-experiments"
      ELSE experiment_name

\* The validators of LLMSettings: temperature in [0.0, 2.0], max_tokens in
\* [1, 64000].
LLMSettingsValid(ai_infra) ==
    /\ ai_infra.llm_temperature >= 0 /\ ai_infra.llm_temperature <= 200
    /\ ai_infra.llm_max_tokens >= 1 /\ ai_infra.llm_max_tokens <= 64000

\* The AppSettings built from a profile's id and name and its three rows.
AppSettings(profile_id, profile_name, ai_infra, mlflow_config, prompts_config) ==
    [profile_id |-> profile_id,
     profile_name |-> profile_name,
     endpoint |-> ai_infra.llm_endpoint,
     temperature |-> ai_infra.llm_temperature,
     max_tokens |-> ai_infra.llm_max_tokens,
     experiment_name |-> FormatExperiment(mlflow_config.experiment_name),
     system_prompt |-> prompts_config.system_prompt,
     user_prompt_template |-> prompts_config.user_prompt_template]

\* The profiles the loader may resolve with profile_id = None: the active
\* profile if it exists, else (or with no active id) a default profile.
ResolveTargets(S, active) ==
    IF active # NoId /\ ProfileExists(S, active) THEN {active} ELSE DefaultIds(S)

ReloadsInProgress ==
    {t \in Threads : thread[t].op = "reload" /\ thread[t].pc # "idle"}

\* A thread calls get_settings().
GetSettingsCall(t) ==
    /\ thread[t].pc = "idle"
    /\ thread' = [thread EXCEPT ![t] = [IdleThread EXCEPT !.pc = "lookup",
                                                          !.op = "get",
                                                          !.began_after = reloaded]]
    /\ UNCHANGED <<store, next_id, last, txn, response, platform_vars, cache, active_profile_id, reloaded>>

\* A thread calls reload_settings(profile_id); NoId is "no profile_id".
ReloadSettingsCall(t, profile_id) ==
    /\ thread[t].pc = "idle"
    /\ thread' = [thread EXCEPT ![t] = [IdleThread EXCEPT !.pc = "set_active",
                                                          !.op = "reload",
                                                          !.arg = profile_id]]
    /\ reloaded' = NoId
    /\ UNCHANGED <<store, next_id, last, txn, response, platform_vars, cache, active_profile_id>>

\* "if profile_id is not None: _active_profile_id = profile_id".
ReloadSetActive(t) ==
    /\ thread[t].pc = "set_active"
    /\ active_profile_id' = IF thread[t].arg # NoId THEN thread[t].arg
                                                    ELSE active_profile_id
    /\ thread' = [thread EXCEPT ![t].pc = "clear"]
    /\ UNCHANGED <<store, next_id, last, txn, response, platform_vars, cache, reloaded>>

\* get_settings.cache_clear().
ReloadCacheClear(t) ==
    /\ thread[t].pc = "clear"
    /\ cache' = NoSettings
    /\ thread' = [thread EXCEPT ![t].pc = "lookup"]
    /\ UNCHANGED <<store, next_id, last, txn, response, platform_vars, active_profile_id, reloaded>>

CacheLookup_AlwaysMiss(t) ==
    /\ thread[t].pc = "lookup"
    /\ thread' = [thread EXCEPT ![t].pc = "resolve"]
    /\ UNCHANGED <<store, next_id, last, txn, response, platform_vars, cache, active_profile_id, reloaded>>

\* The lru_cache lookup of get_settings(): a hit returns the cached settings.
CacheLookup(t) ==
    /\ thread[t].pc = "lookup"
    /\ thread' = [thread EXCEPT ![t] =
                    IF cache # NoSettings
                      THEN [@ EXCEPT !.pc = "returned", !.out = "ok", !.result = cache]
                      ELSE [@ EXCEPT !.pc = "resolve"]]
    /\ UNCHANGED <<store, next_id, last, txn, response, platform_vars, cache, active_profile_id, reloaded>>

\* load_settings_from_database(None) picks its profile; without one it raises
\* and nothing is cached.
LoadResolveProfile(t) ==
    /\ thread[t].pc = "resolve"
    /\ LET targets == ResolveTargets(store, active_profile_id)
       IN IF targets = {}
          THEN thread' = [thread EXCEPT ![t].pc = "returned", ![t].out = "error"]
          ELSE \E id \in targets :
                 thread' = [thread EXCEPT ![t].pc = "read_configs",
                                          ![t].target = id,
                                          ![t].name = ProfileRow(store, id).name]
    /\ UNCHANGED <<store, next_id, last, txn, response, platform_vars, cache, active_profile_id, reloaded>>

LoadReadConfigs_Mixed(t) ==
    /\ thread[t].pc = "read_configs"
    /\ LET id == thread[t].target
       IN IF HasAllConfigs(store, id) /\ LLMSettingsValid(GetProfile(store, id).ai_infra)
          THEN \E ai_infra \in store.ai_infra :
                 thread' = [thread EXCEPT
                              ![t].pc = "store",
                              ![t].result =
                                 AppSettings(id, thread[t].name, ai_infra,
                                             CHOOSE r \in MLflowOf(store, id) : TRUE,
                                             CHOOSE r \in PromptsOf(store, id) : TRUE)]
          ELSE thread' = [thread EXCEPT ![t].pc = "returned", ![t].out = "error"]
    /\ UNCHANGED <<store, next_id, last, txn, response, platform_vars, cache, active_profile_id, reloaded>>

\* The loader reads the three sub-config rows of its profile and builds the
\* settings; a missing row or an invalid LLM value raises.
LoadReadConfigs(t) ==
    /\ thread[t].pc = "read_configs"
    /\ LET id == thread[t].target
       IN IF HasAllConfigs(store, id) /\ LLMSettingsValid(GetProfile(store, id).ai_infra)
          THEN thread' = [thread EXCEPT
                            ![t].pc = "store",
                            ![t].result =
                               AppSettings(id, thread[t].name,
                                           CHOOSE r \in AIInfraOf(store, id) : TRUE,
                                           CHOOSE r \in MLflowOf(store, id) : TRUE,
                                           CHOOSE r \in PromptsOf(store, id) : TRUE)]
          ELSE thread' = [thread EXCEPT ![t].pc = "returned", ![t].out = "error"]
    /\ UNCHANGED <<store, next_id, last, txn, response, platform_vars, cache, active_profile_id, reloaded>>

CacheStore_Skip(t) ==
    /\ thread[t].pc = "store"
    /\ thread' = [thread EXCEPT ![t].pc = "returned", ![t].out = "ok"]
    /\ UNCHANGED <<store, next_id, last, txn, response, platform_vars, cache, active_profile_id, reloaded>>

\* The lru_cache wrapper after the miss: the result is stored unless the key
\* was stored during the call, and returned either way.
CacheStore(t) ==
    /\ thread[t].pc = "store"
    /\ cache' = IF cache = NoSettings THEN thread[t].result ELSE cache
    /\ thread' = [thread EXCEPT ![t].pc = "returned", ![t].out = "ok"]
    /\ UNCHANGED <<store, next_id, last, txn, response, platform_vars, active_profile_id, reloaded>>

\* The call returns to its caller (or raises).
ThreadReturn(t) ==
    /\ thread[t].pc = "returned"
    /\ reloaded' =
         IF /\ thread[t].op = "reload" /\ thread[t].out = "ok"
            /\ thread[t].arg # NoId /\ ReloadsInProgress = {t}
           THEN thread[t].arg
           ELSE reloaded
    /\ thread' = [thread EXCEPT ![t] = IdleThread]
    /\ UNCHANGED <<store, next_id, last, txn, response, platform_vars, cache, active_profile_id>>

\* The profiles are set up before the settings are first read.
Quiescent ==
    /\ \A t \in Threads : thread[t].pc = "idle"
    /\ cache = NoSettings
    /\ active_profile_id = NoId

CacheNext ==
    \/ \E name \in Names :
          /\ last = NoCall /\ Quiescent
          /\ next_id <= CacheProfiles
          /\ CreateProfile(name, NoneStr, NoId, "system")
          /\ UNCHANGED concurrent_vars
    \/ \E profile_id \in 1..CacheProfiles :
          /\ last = NoCall /\ Quiescent
          /\ UpdateAIInfraConfig(profile_id, "databricks-e2", NoneInt, NoneInt, NoneStr)
          /\ Len(store'.history) <= CacheHistory
          /\ UNCHANGED concurrent_vars
    \/ \E profile_id \in 1..CacheProfiles :
          /\ last = NoCall /\ Quiescent
          /\ UpdateMLflowConfig(profile_id, "/exp2", "system")
          /\ Len(store'.history) <= CacheHistory
          /\ UNCHANGED concurrent_vars
    \/ Return /\ UNCHANGED concurrent_vars
    \/ \E t \in Threads : last = NoCall /\ GetSettingsCall(t)
    \/ \E t \in Threads, profile_id \in 0..CacheProfiles :
          last = NoCall /\ ReloadSettingsCall(t, profile_id)
    \/ \E t \in Threads : ReloadSetActive(t)
    \/ \E t \in Threads : ReloadCacheClear(t)
    \/ \E t \in Threads : CacheLookup(t)
    \/ \E t \in Threads : LoadResolveProfile(t)
    \/ \E t \in Threads : LoadReadConfigs(t)
    \/ \E t \in Threads : CacheStore(t)
    \/ \E t \in Threads : ThreadReturn(t)

SpecCache == Init /\ [][CacheNext]_vars

\* ------------------------------------- the settings cache and the services
\* One caller at a time: service calls change the store between the calls of
\* get_settings and reload_settings.

FrameProfiles == 2
FrameHistory == 3

Caller == 1

FrameNext ==
    \/ \E name \in Names :
          /\ last = NoCall /\ thread[Caller].pc = "idle"
          /\ next_id <= FrameProfiles
          /\ CreateProfile(name, NoneStr, NoId, "system")
          /\ UNCHANGED concurrent_vars
    \/ \E profile_id \in 1..FrameProfiles :
          /\ last = NoCall /\ thread[Caller].pc = "idle"
          /\ SetDefaultProfile(profile_id, "system")
          /\ Len(store'.history) <= FrameHistory
          /\ UNCHANGED concurrent_vars
    \/ \E profile_id \in 1..FrameProfiles :
          /\ last = NoCall /\ thread[Caller].pc = "idle"
          /\ DeleteProfile(profile_id, "system")
          /\ UNCHANGED concurrent_vars
    \/ \E profile_id \in 1..FrameProfiles :
          /\ last = NoCall /\ thread[Caller].pc = "idle"
          /\ UpdateAIInfraConfig(profile_id, "databricks-e2", NoneInt, NoneInt, NoneStr)
          /\ Len(store'.history) <= FrameHistory
          /\ UNCHANGED concurrent_vars
    \/ \E profile_id \in 1..FrameProfiles :
          /\ last = NoCall /\ thread[Caller].pc = "idle"
          /\ UpdateMLflowConfig(profile_id, "/exp2", "system")
          /\ Len(store'.history) <= FrameHistory
          /\ UNCHANGED concurrent_vars
    \/ Return /\ UNCHANGED concurrent_vars
    \/ last = NoCall /\ GetSettingsCall(Caller)
    \/ \E profile_id \in 0..(FrameProfiles + 1) :
          last = NoCall /\ ReloadSettingsCall(Caller, profile_id)
    \/ ReloadSetActive(Caller)
    \/ ReloadCacheClear(Caller)
    \/ CacheLookup(Caller)
    \/ LoadResolveProfile(Caller)
    \/ LoadReadConfigs(Caller)
    \/ CacheStore(Caller)
    \/ ThreadReturn(Caller)

SpecFrame == Init /\ [][FrameNext]_vars

\* --------------------------------------------------- the settings API routes
\* A request body is validated by its pydantic schema first (FastAPI answers
\* 422 when that fails; the application installs no handler of its own), then
\* the route calls the service and maps what it raises to a status.

ApiProfiles == 2
ApiHistory == 3

\* str.strip() on the names the requests carry.
Strip(v) == CASE v = " A" -> "A"
              [] v = " " -> ""
              [] OTHER -> v

ApiNames == {"A", " A", "B", "", " "}

\* ProfileCreate.name and ProfileDuplicate.new_name: min_length 1 and not blank.
ValidName(v) == v # "" /\ Strip(v) # ""

\* ProfileUpdate.name: None is accepted, anything else as above.
ValidOptionalName(v) == v = NoneStr \/ ValidName(v)

\* AIInfraConfigUpdate: llm_temperature in [0.0, 1.0], llm_max_tokens > 0.
ValidAIInfraUpdate(llm_temperature, llm_max_tokens) ==
    /\ llm_temperature = NoneInt \/ (llm_temperature >= 0 /\ llm_temperature <= 100)
    /\ llm_max_tokens = NoneInt \/ llm_max_tokens > 0

\* Request bodies of PUT /ai-infra/{id}: <<llm_endpoint, llm_temperature,
\* llm_max_tokens>>.
ApiAIInfraInputs ==
    {<<NoneStr, NoneInt, NoneInt>>,
     <<"databricks-e2", NoneInt, NoneInt>>,
     <<NoneStr, 50, 1>>,
     <<NoneStr, 100, 1>>,
     <<NoneStr, 101, NoneInt>>,
     <<NoneStr, 150, NoneInt>>,
     <<NoneStr, NoneInt, 0>>}

\* Experiment names as character sequences.
ApiExperiments == {<<"/", "e">>, <<"e">>, <<" ">>, <<>>}

\* MLflowConfigUpdate.experiment_name: min_length 1, not blank, starts with "/".
ValidExperiment(v) ==
    /\ Len(v) >= 1
    /\ \E k \in 1..Len(v) : v[k] # " "
    /\ v[1] = "/"

\* User prompt templates as word sequences; NoTemplate is Python's None.
NoTemplate == <<NoneStr>>
ApiTemplates == {NoTemplate, <<"{question}">>, <<"Q:", "{question}">>, <<"Q:">>}

\* PromptsConfigUpdate.user_prompt_template: None, or it contains "{question}".
ValidTemplate(v) == v = NoTemplate \/ \E k \in 1..Len(v) : v[k] = "{question}"

Response(route, status) == [route |-> route, status |-> status]

\* The request is refused before the service is called.
Refused(route, op, out, status) ==
    /\ last' = Failed(op, out)
    /\ response' = Response(route, status)
    /\ UNCHANGED <<store, next_id>>

\* POST /profiles: any ValueError is answered 400, anything else raised 500.
CreateProfileRoute(name, description, copy_from_profile_id) ==
    IF ~ValidName(name)
    THEN Refused("create", "create", "RequestValidationError", 422)
    ELSE /\ CreateProfile(Strip(name), description, copy_from_profile_id, "system")
         /\ response' = Response("create",
                                 CASE last'.out = "ok" -> 201
                                   [] last'.out = "NotFound" -> 400
                                   [] OTHER -> 500)

\* PUT /profiles/{id}: a ValueError saying "not found" is answered 404.
UpdateProfileRoute(profile_id, name, description) ==
    IF ~ValidOptionalName(name)
    THEN Refused("update", "update", "RequestValidationError", 422)
    ELSE /\ UpdateProfile(profile_id, Strip(name), description, "system")
         /\ response' = Response("update",
                                 CASE last'.out = "ok" -> 200
                                   [] last'.out = "NotFound" -> 404
                                   [] OTHER -> 500)

\* DELETE /profiles/{id}.
DeleteProfileRoute(profile_id) ==
    /\ DeleteProfile(profile_id, "system")
    /\ response' = Response("delete",
                            CASE last'.out = "ok" -> 204
                              [] last'.out = "NotFound" -> 404
                              [] last'.out = "Forbidden" -> 403
                              [] OTHER -> 500)

\* POST /profiles/{id}/set-default.
SetDefaultProfileRoute(profile_id) ==
    /\ SetDefaultProfile(profile_id, "system")
    /\ response' = Response("set_default",
                            CASE last'.out \in {"ok", "noop"} -> 200
                              [] last'.out = "NotFound" -> 404
                              [] OTHER -> 500)

\* POST /profiles/{id}/duplicate: a ValueError saying "not found" is answered
\* 404, another ValueError 400, anything else raised 500.
DuplicateProfileRoute(profile_id, new_name) ==
    IF ~ValidName(new_name)
    THEN Refused("duplicate", "create", "RequestValidationError", 422)
    ELSE /\ DuplicateProfile(profile_id, Strip(new_name), "system")
         /\ response' = Response("duplicate",
                                 CASE last'.out = "ok" -> 201
                                   [] last'.out = "NotFound" -> 404
                                   [] OTHER -> 500)

\* PUT /ai-infra/{id}. When a value is given the route reads the current row
\* (ValueError, answered 404, when there is none) and then evaluates
\* "ConfigValidator()": ConfigValidator is ConfigurationValidator, whose
\* __init__ requires profile_id, so the call raises TypeError, answered 500.
\* Without a value the service is called with nothing to change.
UpdateAIInfraRoute(profile_id, llm_endpoint, llm_temperature, llm_max_tokens) ==
    LET given == \/ llm_endpoint \notin {NoneStr, ""}
                 \/ llm_temperature # NoneInt
                 \/ llm_max_tokens # NoneInt
    IN CASE ~ValidAIInfraUpdate(llm_temperature, llm_max_tokens) ->
              Refused("update_ai_infra", "update_ai_infra", "RequestValidationError", 422)
         [] ValidAIInfraUpdate(llm_temperature, llm_max_tokens) /\ given ->
              IF AIInfraOf(store, profile_id) = {}
                THEN Refused("update_ai_infra", "update_ai_infra", "NotFound", 404)
                ELSE Refused("update_ai_infra", "update_ai_infra", "TypeError", 500)
         [] OTHER ->
              /\ UpdateAIInfraConfig(profile_id, llm_endpoint, llm_temperature,
                                     llm_max_tokens, "system")
              /\ response' = Response("update_ai_infra",
                                      CASE last'.out = "ok" -> 200
                                        [] last'.out = "NotFound" -> 404
                                        [] OTHER -> 500)

\* PUT /mlflow/{id}: "ConfigValidator()" is the first statement of the route.
UpdateMLflowRoute(profile_id, experiment_name) ==
    IF ~ValidExperiment(experiment_name)
    THEN Refused("update_mlflow", "update_mlflow", "RequestValidationError", 422)
    ELSE Refused("update_mlflow", "update_mlflow", "TypeError", 500)

\* PUT /prompts/{id}: "ConfigValidator()" is the first statement of the route.
UpdatePromptsRoute(profile_id, system_prompt, user_prompt_template) ==
    IF ~ValidTemplate(user_prompt_template)
    THEN Refused("update_prompts", "update_prompts", "RequestValidationError", 422)
    ELSE Refused("update_prompts", "update_prompts", "TypeError", 500)

\* The response is sent; the next request starts after that.
ApiReturn ==
    /\ Return
    /\ response' = NoResponse

ApiHistoryBound == Len(store'.history) <= ApiHistory

ApiNext ==
    \/ \E name \in ApiNames, copy_from_profile_id \in 0..(ApiProfiles + 1) :
          /\ last = NoCall /\ next_id <= ApiProfiles
          /\ CreateProfileRoute(name, NoneStr, copy_from_profile_id)
          /\ ApiHistoryBound
          /\ UNCHANGED <<txn, settings_vars, platform_vars>>
    \/ \E profile_id \in 1..(ApiProfiles + 1), name \in ApiNames \cup {NoneStr},
          description \in Descriptions :
          /\ last = NoCall
          /\ UpdateProfileRoute(profile_id, name, description)
          /\ ApiHistoryBound
          /\ UNCHANGED <<txn, settings_vars, platform_vars>>
    \/ \E profile_id \in 1..(ApiProfiles + 1) :
          /\ last = NoCall
          /\ DeleteProfileRoute(profile_id)
          /\ UNCHANGED <<txn, settings_vars, platform_vars>>
    \/ \E profile_id \in 1..(ApiProfiles + 1) :
          /\ last = NoCall
          /\ SetDefaultProfileRoute(profile_id)
          /\ ApiHistoryBound
          /\ UNCHANGED <<txn, settings_vars, platform_vars>>
    \/ \E profile_id \in 0..(ApiProfiles + 1), new_name \in ApiNames :
          /\ last = NoCall /\ next_id <= ApiProfiles
          /\ DuplicateProfileRoute(profile_id, new_name)
          /\ ApiHistoryBound
          /\ UNCHANGED <<txn, settings_vars, platform_vars>>
    \/ \E profile_id \in 1..(ApiProfiles + 1), given \in ApiAIInfraInputs :
          /\ last = NoCall
          /\ UpdateAIInfraRoute(profile_id, given[1], given[2], given[3])
          /\ UNCHANGED <<txn, settings_vars, platform_vars>>
    \/ \E profile_id \in 1..(ApiProfiles + 1), experiment_name \in ApiExperiments :
          /\ last = NoCall
          /\ UpdateMLflowRoute(profile_id, experiment_name)
          /\ UNCHANGED <<txn, settings_vars, platform_vars>>
    \/ \E profile_id \in 1..(ApiProfiles + 1),
          user_prompt_template \in ApiTemplates :
          /\ last = NoCall
          /\ UpdatePromptsRoute(profile_id, "sys2", user_prompt_template)
          /\ UNCHANGED <<txn, settings_vars, platform_vars>>
    \/ ApiReturn /\ UNCHANGED <<txn, settings_vars, platform_vars>>

SpecApi == Init /\ [][ApiNext]_vars

\* ------------------------------------------------ the load and reload routes
\* POST /profiles/{id}/load and POST /profiles/reload, which call
\* ChatService.reload_agent; one request at a time, between the get_settings()
\* calls of one caller. ChatService.current_profile_id is read by nothing and
\* is left out.

\* load_settings_from_database(profile_id) finds its profile and three rows.
Loadable(S, profile_id) ==
    /\ ProfileExists(S, profile_id)
    /\ HasAllConfigs(S, profile_id)
    /\ LLMSettingsValid(GetProfile(S, profile_id).ai_infra)

\* reload_agent(profile_id) with a profile id: the settings are loaded and
\* dropped; neither the cache nor _active_profile_id is written.
ReloadAgentWithId(route, profile_id) ==
    /\ IF Loadable(store, profile_id)
         THEN /\ last' = Call(route, "ok", profile_id, NoId)
              /\ response' = Response(route, 200)
         ELSE /\ last' = Failed(route, "ValueError")
              /\ response' = Response(route, 500)
    /\ UNCHANGED <<cache, active_profile_id>>

\* reload_agent(None): "settings = get_settings()", the cached settings when
\* there are any, else the ones load_settings_from_database(None) builds,
\* which are then cached.
ReloadAgentWithoutId(route) ==
    LET targets == ResolveTargets(store, active_profile_id)
    IN CASE cache # NoSettings ->
              /\ last' = Call(route, "ok", cache.profile_id, NoId)
              /\ response' = Response(route, 200)
              /\ UNCHANGED <<cache, active_profile_id>>
         [] cache = NoSettings /\ targets = {} ->
              /\ last' = Failed(route, "ValueError")
              /\ response' = Response(route, 500)
              /\ UNCHANGED <<cache, active_profile_id>>
         [] OTHER ->
              \E id \in targets :
                 IF Loadable(store, id)
                   THEN /\ cache' = AppSettings(id, ProfileRow(store, id).name,
                                                CHOOSE r \in AIInfraOf(store, id) : TRUE,
                                                CHOOSE r \in MLflowOf(store, id) : TRUE,
                                                CHOOSE r \in PromptsOf(store, id) : TRUE)
                        /\ last' = Call(route, "ok", id, NoId)
                        /\ response' = Response(route, 200)
                        /\ UNCHANGED active_profile_id
                   ELSE /\ last' = Failed(route, "ValueError")
                        /\ response' = Response(route, 500)
                        /\ UNCHANGED <<cache, active_profile_id>>

\* POST /profiles/{id}/load.
LoadProfileRoute(profile_id) ==
    /\ IF ~ProfileExists(store, profile_id)
         THEN /\ last' = Failed("load", "NotFound")
              /\ response' = Response("load", 404)
              /\ UNCHANGED <<cache, active_profile_id>>
         ELSE ReloadAgentWithId("load", profile_id)
    /\ UNCHANGED <<store, next_id, txn, thread, reloaded, platform_vars>>

\* POST /profiles/reload with the optional query parameter profile_id;
\* "if profile_id:" takes 0 for no id.
ReloadConfigurationRoute(profile_id) ==
    /\ IF profile_id # NoId THEN ReloadAgentWithId("reload", profile_id)
                            ELSE ReloadAgentWithoutId("reload")
    /\ UNCHANGED <<store, next_id, txn, thread, reloaded, platform_vars>>

ReloadNext ==
    \/ \E name \in Names :
          /\ last = NoCall /\ thread[Caller].pc = "idle"
          /\ next_id <= FrameProfiles
          /\ CreateProfile(name, NoneStr, NoId, "system")
          /\ UNCHANGED concurrent_vars
    \/ \E profile_id \in 1..FrameProfiles :
          /\ last = NoCall /\ thread[Caller].pc = "idle"
          /\ UpdateAIInfraConfig(profile_id, "databricks-e2", NoneInt, NoneInt, NoneStr)
          /\ Len(store'.history) <= FrameHistory
          /\ UNCHANGED concurrent_vars
    \/ \E profile_id \in 1..FrameProfiles :
          /\ last = NoCall /\ thread[Caller].pc = "idle"
          /\ SetDefaultProfile(profile_id, "system")
          /\ Len(store'.history) <= FrameHistory
          /\ UNCHANGED concurrent_vars
    \/ \E profile_id \in 1..(FrameProfiles + 1) :
          /\ last = NoCall /\ thread[Caller].pc = "idle"
          /\ LoadProfileRoute(profile_id)
    \/ \E profile_id \in 0..(FrameProfiles + 1) :
          /\ last = NoCall /\ thread[Caller].pc = "idle"
          /\ ReloadConfigurationRoute(profile_id)
    \/ ApiReturn /\ UNCHANGED <<txn, settings_vars, platform_vars>>
    \/ last = NoCall /\ GetSettingsCall(Caller)
    \/ CacheLookup(Caller)
    \/ LoadResolveProfile(Caller)
    \/ LoadReadConfigs(Caller)
    \/ CacheStore(Caller)
    \/ ThreadReturn(Caller)

SpecReload == Init /\ [][ReloadNext]_vars

\* ------------------------------------------- concurrent create_profile
\* Two sessions run create_profile(name, None, None, user) in READ COMMITTED
\* transactions; txn holds the call of each session.

CreateProfiles == 3
CreateHistory == 3

\* The names of the rows other sessions have inserted and not yet committed.
PendingNames(s) ==
    {txn[o].name : o \in {q \in Sessions \ {s} : txn[q].pc = "cp_commit"}}

\* The call starts.
CpCall(s, name, user) ==
    /\ txn[s].pc = "idle"
    /\ txn' = [txn EXCEPT ![s] = [pc |-> "cp_has_default", name |-> name,
                                  user |-> user, has_default |-> FALSE,
                                  profile_id |-> NoId, out |-> "none"]]
    /\ UNCHANGED <<store, next_id, last>>
    /\ UNCHANGED <<settings_vars, response, platform_vars>>

\* "has_default = ... .first() is not None": the committed rows are read.
CpHasDefault(s) ==
    /\ txn[s].pc = "cp_has_default"
    /\ txn' = [txn EXCEPT ![s].pc = "cp_flush",
                          ![s].has_default = HasDefault(store)]
    /\ UNCHANGED <<store, next_id, last>>
    /\ UNCHANGED <<settings_vars, response, platform_vars>>

\* self.db.add(profile); self.db.flush(): the INSERT takes the next id of the
\* sequence and waits for a pending row of the same name; a committed row of
\* that name raises IntegrityError.
CpFlush(s) ==
    /\ txn[s].pc = "cp_flush"
    /\ txn[s].name \notin PendingNames(s)
    /\ IF NameTaken(store, txn[s].name, NoId)
         THEN /\ txn' = [txn EXCEPT ![s].pc = "returned",
                                    ![s].out = "IntegrityError"]
              /\ UNCHANGED next_id
         ELSE /\ txn' = [txn EXCEPT ![s].pc = "cp_commit",
                                    ![s].profile_id = next_id]
              /\ next_id' = next_id + 1
    /\ UNCHANGED <<store, last>>
    /\ UNCHANGED <<settings_vars, response, platform_vars>>

\* The three default sub-configs, the history row and self.db.commit().
CpCommit(s) ==
    /\ txn[s].pc = "cp_commit"
    /\ Len(store.history) < CreateHistory
    /\ LET profile == NewProfile(txn[s].profile_id, txn[s].name, NoneStr,
                                 txn[s].has_default, txn[s].user)
           flushed == [store EXCEPT !.profiles = @ \cup {profile}]
       IN store' = AddHistory(DefaultConfigs(flushed, txn[s].profile_id),
                              HistoryRow(txn[s].profile_id, "profile", "create",
                                         txn[s].user,
                                         [name |-> [old |-> NoneStr,
                                                    new |-> txn[s].name]]))
    /\ txn' = [txn EXCEPT ![s].pc = "returned", ![s].out = "ok"]
    /\ UNCHANGED <<next_id, last>>
    /\ UNCHANGED <<settings_vars, response, platform_vars>>

CreateNext ==
    \/ \E s \in Sessions, name \in TxnNames :
          next_id <= CreateProfiles /\ CpCall(s, name, "system")
    \/ \E s \in Sessions : CpHasDefault(s)
    \/ \E s \in Sessions : CpFlush(s)
    \/ \E s \in Sessions : CpCommit(s)
    \/ \E s \in Sessions : SdReturn(s)

SpecCreate == Init /\ [][CreateNext]_vars

\* ------------------------------------------------------------ the seeding
\* init_db() run at start-up, before and between the calls of the services.

SeedProfiles == 3
SeedHistory == 3

\* The user name the seed puts in the experiment name: the workspace user, or
\* $USER / "default_user" when the client cannot tell.
SeedUsers == {"user@example.com", Username}

SeedNeeded_Always(S) == TRUE

\* "existing = db.query(ConfigProfile).first()": nothing is found.
SeedNeeded(S) == S.profiles = {}

\* The four rows _seed_default_profile_if_empty adds; created_by is "system",
\* updated_by is left NULL.
Seeded(S, id, username) ==
    [S EXCEPT
       !.profiles = @ \cup {[id |-> id, name |-> "Default Chat",
                             description |-> "Standard chat assistant",
                             is_default |-> TRUE, updated_by |-> NoneStr]},
       !.ai_infra = @ \cup {[profile_id |-> id,
                             llm_endpoint |-> "databricks-claude-sonnet-4-5",
                             llm_temperature |-> 70,
                             llm_max_tokens |-> 2048]},
       !.mlflow = @ \cup {[profile_id |-> id,
                           experiment_name |->
                              "/Users/" \o username \o "/chat-template-experiments"]},
       !.prompts = @ \cup {[profile_id |-> id,
                            system_prompt |-> "You are a helpful AI assistant powered by Databricks",
                            user_prompt_template |-> "{question}"]}]

\* init_db(): the tables exist already or are created empty; then the seed,
\* committed at once.
InitDb(username) ==
    IF SeedNeeded(store)
    THEN /\ store' = Seeded(store, next_id, username)
         /\ next_id' = next_id + 1
         /\ last' = Call("init_db", "ok", next_id, NoId)
    ELSE /\ last' = Call("init_db", "ok", NoId, NoId)
         /\ UNCHANGED <<store, next_id>>

SeedNext ==
    \/ \E username \in SeedUsers :
          /\ last = NoCall /\ next_id <= SeedProfiles
          /\ InitDb(username)
          /\ UNCHANGED concurrent_vars
    \/ \E name \in Names :
          /\ last = NoCall /\ next_id <= SeedProfiles
          /\ CreateProfile(name, NoneStr, NoId, "system")
          /\ Len(store'.history) <= SeedHistory
          /\ UNCHANGED concurrent_vars
    \/ \E profile_id \in 1..SeedProfiles :
          /\ last = NoCall
          /\ SetDefaultProfile(profile_id, "system")
          /\ Len(store'.history) <= SeedHistory
          /\ UNCHANGED concurrent_vars
    \/ \E profile_id \in 1..SeedProfiles :
          /\ last = NoCall
          /\ DeleteProfile(profile_id, "system")
          /\ UNCHANGED concurrent_vars
    \/ Return /\ UNCHANGED concurrent_vars

SpecSeed == Init /\ [][SeedNext]_vars

\* ---------------------------------------------------- the serving endpoints
\* ConfigService.get_available_endpoints over the model-serving catalog.
\* Endpoint names are character sequences.

MaxCatalog == 3

\* "databricks-"
Prefix == <<"d", "a", "t", "a", "b", "r", "i", "c", "k", "s", "-">>

EndpointNames ==
    {Prefix \o <<"b">>, Prefix \o <<"a">>, <<"z">>, <<"a">>, <<"d", "a", "t", "a">>}

\* ord(c) of the characters in use.
Ord(c) ==
    CASE c = "-" -> 45
      [] c = "a" -> 97
      [] c = "b" -> 98
      [] c = "c" -> 99
      [] c = "d" -> 100
      [] c = "i" -> 105
      [] c = "k" -> 107
      [] c = "r" -> 114
      [] c = "s" -> 115
      [] c = "t" -> 116
      [] c = "z" -> 122

\* Python's a < b on str: the first differing character decides, a proper
\* prefix is smaller.
RECURSIVE StrLess(_, _)
StrLess(a, b) ==
    IF a = <<>> THEN b # <<>>
    ELSE IF b = <<>> THEN FALSE
    ELSE IF Ord(Head(a)) # Ord(Head(b)) THEN Ord(Head(a)) < Ord(Head(b))
    ELSE StrLess(Tail(a), Tail(b))

\* n.startswith(prefix).
StartsWith(n, prefix) ==
    /\ Len(n) >= Len(prefix)
    /\ SubSeq(n, 1, Len(prefix)) = prefix

\* One name put in its place in an ascending list, after its equals.
RECURSIVE Insert(_, _)
Insert(n, ascending) ==
    IF ascending = <<>> THEN <<n>>
    ELSE IF StrLess(n, Head(ascending)) THEN <<n>> \o ascending
    ELSE <<Head(ascending)>> \o Insert(n, Tail(ascending))

\* sorted(names).
RECURSIVE Sorted(_)
Sorted(names) ==
    IF names = <<>> THEN <<>>
    ELSE Insert(names[Len(names)], Sorted(SubSeq(names, 1, Len(names) - 1)))

EndpointList_OneSort(names) == Sorted(names)

\* databricks_endpoints + other_endpoints.
EndpointList(names) ==
    Sorted(SelectSeq(names, LAMBDA n : StartsWith(n, Prefix)))
      \o Sorted(SelectSeq(names, LAMBDA n : ~StartsWith(n, Prefix)))

\* get_available_endpoints(): the client or its list() call may raise, and
\* then the empty list is returned.
GetAvailableEndpoints(fails) ==
    /\ endpoints = NotCalled
    /\ endpoints' = [called |-> TRUE, failed |-> fails,
                     names |-> IF fails THEN <<>> ELSE EndpointList(catalog)]
    /\ UNCHANGED <<catalog, client_vars>>

\* The caller has the list; the next call starts after that.
EndpointsReturn ==
    /\ endpoints # NotCalled
    /\ endpoints' = NotCalled
    /\ UNCHANGED <<catalog, client_vars>>

\* The workspace gets one more serving endpoint.
CatalogRegister(name) ==
    /\ endpoints = NotCalled
    /\ Len(catalog) < MaxCatalog
    /\ catalog' = Append(catalog, name)
    /\ UNCHANGED <<endpoints, client_vars>>

EndpointsNext ==
    \/ \E fails \in BOOLEAN :
          /\ GetAvailableEndpoints(fails)
          /\ UNCHANGED <<store, next_id, last, txn, settings_vars, response>>
    \/ EndpointsReturn /\ UNCHANGED <<store, next_id, last, txn, settings_vars, response>>
    \/ \E name \in EndpointNames :
          /\ CatalogRegister(name)
          /\ UNCHANGED <<store, next_id, last, txn, settings_vars, response>>

SpecEndpoints == Init /\ [][EndpointsNext]_vars

\* ------------------------------------------------- the Databricks client
\* get_databricks_client(force_new = False) called from several threads.

MaxClients == 2

\* The call starts.
ClientCall(t) ==
    /\ client_call[t].pc = "idle"
    /\ client_call' = [client_call EXCEPT ![t].pc = "fast_path"]
    /\ UNCHANGED <<client_instance, client_lock, client_made, client_verified>>

\* "if _client_instance is not None and not force_new: return
\* _client_instance", read without the lock.
ClientFastPath(t) ==
    /\ client_call[t].pc = "fast_path"
    /\ client_call' = [client_call EXCEPT ![t] =
                         IF client_instance # NoClient
                           THEN [pc |-> "returned", got |-> client_instance, out |-> "ok"]
                           ELSE [@ EXCEPT !.pc = "acquire"]]
    /\ UNCHANGED <<client_instance, client_lock, client_made, client_verified>>

\* "with _client_lock:".
ClientAcquire(t) ==
    /\ client_call[t].pc = "acquire"
    /\ client_lock = NoThread
    /\ client_lock' = t
    /\ client_call' = [client_call EXCEPT ![t].pc = "double_check"]
    /\ UNCHANGED <<client_instance, client_made, client_verified>>

\* The second check, under the lock; returning leaves the with block.
ClientDoubleCheck(t) ==
    /\ client_call[t].pc = "double_check"
    /\ IF client_instance # NoClient
         THEN /\ client_call' = [client_call EXCEPT ![t] =
                                   [pc |-> "returned", got |-> client_instance,
                                    out |-> "ok"]]
              /\ client_lock' = NoThread
         ELSE /\ client_call' = [client_call EXCEPT ![t].pc = "construct"]
              /\ UNCHANGED client_lock
    /\ UNCHANGED <<client_instance, client_made, client_verified>>

\* "_client_instance = WorkspaceClient()"; when the constructor raises, the
\* global is set to None and DatabricksClientError leaves the with block.
ClientConstruct(t, raises) ==
    /\ client_call[t].pc = "construct"
    /\ IF raises
         THEN /\ client_instance' = NoClient
              /\ client_lock' = NoThread
              /\ client_call' = [client_call EXCEPT ![t] =
                                   [pc |-> "returned", got |-> NoClient,
                                    out |-> "DatabricksClientError"]]
              /\ UNCHANGED client_made
         ELSE /\ client_made' = client_made + 1
              /\ client_instance' = client_made + 1
              /\ client_call' = [client_call EXCEPT ![t].pc = "verify"]
              /\ UNCHANGED client_lock
    /\ UNCHANGED client_verified

\* "_client_instance.current_user.me()"; when it raises, the global is set to
\* None and DatabricksClientError leaves the with block.
ClientVerify(t, raises) ==
    /\ client_call[t].pc = "verify"
    /\ IF raises
         THEN /\ client_instance' = NoClient
              /\ client_lock' = NoThread
              /\ client_call' = [client_call EXCEPT ![t] =
                                   [pc |-> "returned", got |-> NoClient,
                                    out |-> "DatabricksClientError"]]
              /\ UNCHANGED client_verified
         ELSE /\ client_verified' = client_verified \cup {client_instance}
              /\ client_call' = [client_call EXCEPT ![t].pc = "return_instance"]
              /\ UNCHANGED <<client_instance, client_lock>>
    /\ UNCHANGED client_made

\* "return _client_instance" at the end of the try block.
ClientReturnInstance(t) ==
    /\ client_call[t].pc = "return_instance"
    /\ client_call' = [client_call EXCEPT ![t] =
                         [pc |-> "returned", got |-> client_instance, out |-> "ok"]]
    /\ client_lock' = NoThread
    /\ UNCHANGED <<client_instance, client_made, client_verified>>

\* The caller has its client or its error.
ClientReturn(t) ==
    /\ client_call[t].pc = "returned"
    /\ client_call' = [client_call EXCEPT ![t] = IdleClientCall]
    /\ UNCHANGED <<client_instance, client_lock, client_made, client_verified>>

ClientUnchanged ==
    UNCHANGED <<store, next_id, last, txn, settings_vars, response, catalog, endpoints>>

ClientNext ==
    \/ \E t \in Threads : ClientCall(t) /\ ClientUnchanged
    \/ \E t \in Threads : ClientFastPath(t) /\ ClientUnchanged
    \/ \E t \in Threads : ClientAcquire(t) /\ ClientUnchanged
    \/ \E t \in Threads : ClientDoubleCheck(t) /\ ClientUnchanged
    \/ \E t \in Threads, raises \in BOOLEAN :
          /\ client_made < MaxClients
          /\ ClientConstruct(t, raises)
          /\ ClientUnchanged
    \/ \E t \in Threads, raises \in BOOLEAN : ClientVerify(t, raises) /\ ClientUnchanged
    \/ \E t \in Threads : ClientReturnInstance(t) /\ ClientUnchanged
    \/ \E t \in Threads : ClientReturn(t) /\ ClientUnchanged

SpecClient == Init /\ [][ClientNext]_vars

\* ------------------------------------------------- claims: the profile store

DefaultRows(S) == {p \in S.profiles : p.is_default}

\* The rows of the profile and sub-config tables that belong to other profiles
\* than id.
OtherRows(S, id) ==
    [profiles |-> {p \in S.profiles : p.id # id},
     ai_infra |-> {r \in S.ai_infra : r.profile_id # id},
     mlflow |-> {r \in S.mlflow : r.profile_id # id},
     prompts |-> {r \in S.prompts : r.profile_id # id}]

\* C1: in every committed store state exactly one profile is default when a
\* profile exists, and none is when the store is empty.
C1_SingleDefault ==
    Cardinality(DefaultRows(store)) = IF store.profiles = {} THEN 0 ELSE 1

C1_Witness ==
    /\ Cardinality(store.profiles) = 2
    /\ last.op = "set_default" /\ last.out = "ok"

\* C2: every profile owns exactly one row of each sub-config table, and every
\* sub-config row belongs to an existing profile.
C2_ThreeSubConfigs ==
    /\ \A p \in store.profiles :
          /\ Cardinality(AIInfraOf(store, p.id)) = 1
          /\ Cardinality(MLflowOf(store, p.id)) = 1
          /\ Cardinality(PromptsOf(store, p.id)) = 1
    /\ \A r \in store.ai_infra : ProfileExists(store, r.profile_id)
    /\ \A r \in store.mlflow : ProfileExists(store, r.profile_id)
    /\ \A r \in store.prompts : ProfileExists(store, r.profile_id)

C2_Witness ==
    /\ last.op = "delete" /\ last.out = "ok"
    /\ Cardinality(store.profiles) = 1
    /\ store.ai_infra # {}

\* C5: a create_profile call either commits the profile row, its three
\* sub-config rows and one profile/create history row together, leaving every
\* other row as it was, or (on any failure) leaves the committed store unchanged.
C5_CreateCommitted ==
    LET id == last'.id
    IN /\ ~ProfileExists(store, id)
       /\ ProfileExists(store', id)
       /\ Cardinality(AIInfraOf(store', id)) = 1
       /\ Cardinality(MLflowOf(store', id)) = 1
       /\ Cardinality(PromptsOf(store', id)) = 1
       /\ Len(store'.history) = Len(store.history) + 1
       /\ SubSeq(store'.history, 1, Len(store.history)) = store.history
       /\ LET h == store'.history[Len(store'.history)]
          IN h.profile_id = id /\ h.domain = "profile" /\ h.action = "create"
       /\ OtherRows(store', id).profiles = store.profiles
       /\ OtherRows(store', id).ai_infra = store.ai_infra
       /\ OtherRows(store', id).mlflow = store.mlflow
       /\ OtherRows(store', id).prompts = store.prompts

C5_CreateAllOrNothing ==
    [][last'.op = "create" =>
         IF last'.out = "ok" THEN C5_CreateCommitted ELSE store' = store]_vars

C5_Witness ==
    /\ last = Failed("create", "NotFound")
    /\ store.profiles # {}

\* C6: a set_default_profile call that succeeds was made on a non-default
\* profile, leaves that profile the only default, clears the flag of the former
\* default, and appends its profile/set_default history row in the same commit.
C6_SetDefault ==
    [][last'.op = "set_default" /\ last'.out = "ok" =>
         LET id == last'.id
         IN /\ ProfileExists(store, id)
            /\ ~ProfileRow(store, id).is_default
            /\ DefaultIds(store') = {id}
            /\ \A p \in DefaultRows(store) : ~ProfileRow(store', p.id).is_default
            /\ store'.history =
                 Append(store.history,
                        [profile_id |-> id, domain |-> "profile",
                         action |-> "set_default",
                         changed_by |-> ProfileRow(store', id).updated_by,
                         changes |-> [is_default |-> [old |-> FALSE, new |-> TRUE]]])]_vars

C6_Witness ==
    /\ last.op = "set_default" /\ last.out = "ok"
    /\ \E p \in store.profiles : p.id # last.id /\ ~p.is_default

C8_SetDefaultIdempotent ==
    [][last'.op = "set_default" /\ last'.out # "NotFound" =>
         IF ProfileRow(store, last'.id).is_default
           THEN /\ last'.out = "noop"
                /\ store'.history = store.history
                /\ store'.profiles = store.profiles
           ELSE last'.out = "ok"]_vars

C8_Witness ==
    /\ last.op = "set_default" /\ last.out = "noop"
    /\ Len(store.history) > 1

\* C9: a profile created with copy_from_id = X has X's sub-config field values
\* as they were when the call was made; one created without a source has the
\* static defaults.
C9_Fields(g) ==
    <<g.ai_infra.llm_endpoint, g.ai_infra.llm_temperature, g.ai_infra.llm_max_tokens,
      g.mlflow.experiment_name, g.prompts.system_prompt, g.prompts.user_prompt_template>>

C9_StaticDefaults ==
    <<"databricks-claude-sonnet-4-5", 70, 2048,
      "/Workspace/Users/{username}/chat-template-experiments",
      "You are a helpful AI assistant", "{question}">>

C9_CopyRoundTrip ==
    [][last'.op = "create" /\ last'.out = "ok" =>
         C9_Fields(GetProfile(store', last'.id)) =
           IF last'.arg # NoId THEN C9_Fields(GetProfile(store, last'.arg))
                               ELSE C9_StaticDefaults]_vars

C9_Witness ==
    /\ last.op = "create" /\ last.out = "ok" /\ last.arg # NoId
    /\ GetProfile(store, last.id).ai_infra.llm_endpoint # DEFAULT_CONFIG.llm.endpoint

\* C10: delete_profile on the default profile is refused and changes nothing;
\* on an existing non-default profile it removes every row that references the
\* profile (profile, sub-configs, history) and no other row; it succeeds on no
\* other profile.
C10_Delete ==
    [][last'.op = "delete" =>
         CASE last'.out = "Forbidden" ->
                /\ ProfileRow(store, last'.id).is_default
                /\ store' = store
           [] last'.out = "ok" ->
                /\ ProfileExists(store, last'.id)
                /\ ~ProfileRow(store, last'.id).is_default
                /\ ~ProfileExists(store', last'.id)
                /\ ~HasAllConfigs(store', last'.id)
                /\ AIInfraOf(store', last'.id) = {}
                /\ MLflowOf(store', last'.id) = {}
                /\ PromptsOf(store', last'.id) = {}
                /\ \A i \in 1..Len(store'.history) :
                      store'.history[i].profile_id # last'.id
                /\ store'.profiles = store.profiles \ {ProfileRow(store, last'.id)}
                /\ store'.history =
                     SelectSeq(store.history, LAMBDA h : h.profile_id # last'.id)
           [] OTHER -> store' = store]_vars

C10_Witness ==
    /\ last.op = "delete" /\ last.out = "ok"
    /\ store.history # <<>>

\* ------------------------------- claims: concurrent set_default_profile

\* C3: with two set_default_profile calls running concurrently on different
\* non-default profiles, the committed store never holds two default profiles,
\* and holds exactly one once both calls have returned.
C3_ConcurrentSetDefault ==
    /\ Cardinality(DefaultRows(store)) <= 1
    /\ (/\ \A s \in Sessions : txn[s].pc = "returned" /\ txn[s].out = "ok"
        /\ txn[1].profile_id # txn[2].profile_id)
         => Cardinality(DefaultRows(store)) = 1

\* ---------------------------------------------- claims: the settings cache

\* The settings of profile id as the store holds them.
SettingsOf(S, id) ==
    AppSettings(id, ProfileRow(S, id).name,
                CHOOSE r \in AIInfraOf(S, id) : TRUE,
                CHOOSE r \in MLflowOf(S, id) : TRUE,
                CHOOSE r \in PromptsOf(S, id) : TRUE)

\* A get_settings() call that began after reload_settings(p) returned, with no
\* reload_settings call started since.
C4_ReadAfterReload(t) ==
    /\ thread[t].pc = "returned" /\ thread[t].op = "get"
    /\ thread[t].began_after # NoId
    /\ reloaded = thread[t].began_after

\* C4: once reload_settings(p) has returned for an existing profile p, every
\* get_settings() call returns the settings of profile p.
C4_ReloadThenRead ==
    \A t \in Threads :
       C4_ReadAfterReload(t) /\ ProfileExists(store, thread[t].began_after) =>
          /\ thread[t].out = "ok"
          /\ thread[t].result = SettingsOf(store, thread[t].began_after)

\* ------------------------------------------------- claims: names and updates

\* A response that reports a validation failure.
ValidationFailure == response'.status \in {400, 422}

\* C11: a create, duplicate or update request whose name is empty or already
\* used by another profile is answered with a validation failure and leaves the
\* store unchanged; profile names are always non-empty and pairwise distinct.
C11_NamesValidated ==
    /\ [](\A p \in store.profiles :
            /\ p.name # ""
            /\ \A q \in store.profiles : q.name = p.name => q = p)
    /\ [][/\ \A name \in ApiNames, copy_from_profile_id \in 0..(ApiProfiles + 1) :
               /\ last = NoCall
               /\ Strip(name) = "" \/ NameTaken(store, Strip(name), NoId)
               /\ \/ CreateProfileRoute(name, NoneStr, copy_from_profile_id)
                  \/ DuplicateProfileRoute(copy_from_profile_id, name)
               => ValidationFailure /\ store' = store
          /\ \A name \in ApiNames, profile_id \in 1..ApiProfiles,
                description \in Descriptions :
               /\ last = NoCall
               /\ ProfileExists(store, profile_id)
               /\ Strip(name) = "" \/ NameTaken(store, Strip(name), profile_id)
               /\ UpdateProfileRoute(profile_id, name, description)
               => ValidationFailure /\ store' = store]_vars

\* The fields of a sub-config row whose given value differs from the stored
\* one (None given for a field means the field is not provided).
Differing(row, given) ==
    {f \in DOMAIN given :
       /\ given[f] # (IF f \in {"llm_temperature", "llm_max_tokens"} THEN NoneInt
                                                                     ELSE NoneStr)
       /\ given[f] # row[f]}

\* The update wrote exactly the differing fields and one history row naming
\* them, or nothing at all when no field differs.
C12_Written(table, domain, profile_id, given) ==
    LET row == CHOOSE r \in store[table] : r.profile_id = profile_id
        new == CHOOSE r \in store'[table] : r.profile_id = profile_id
        differing == Differing(row, given)
    IN IF differing = {}
         THEN store' = store
         ELSE /\ \A f \in DOMAIN given :
                   new[f] = IF f \in differing THEN given[f] ELSE row[f]
              /\ Len(store'.history) = Len(store.history) + 1
              /\ SubSeq(store'.history, 1, Len(store.history)) = store.history
              /\ LET h == store'.history[Len(store'.history)]
                 IN /\ h.profile_id = profile_id
                    /\ h.domain = domain /\ h.action = "update"
                    /\ DOMAIN h.changes = differing

\* C12: an update of a sub-config that succeeds mutates exactly the provided
\* fields that differ from the stored values and appends exactly one history
\* entry of its domain whose changes map has those fields as keys; when no
\* provided field differs it writes no history entry and changes nothing.
C12_ConfigUpdates ==
    [][/\ \A profile_id \in ProfileIds, given \in AIInfraInputs :
            /\ last = NoCall
            /\ UpdateAIInfraConfig(profile_id, given[1], given[2], given[3], NoneStr)
            /\ last'.out = "ok"
            => C12_Written("ai_infra", "ai_infra", profile_id,
                           [llm_endpoint |-> given[1], llm_temperature |-> given[2],
                            llm_max_tokens |-> given[3]])
       /\ \A profile_id \in ProfileIds, experiment_name \in Experiments :
            /\ last = NoCall
            /\ UpdateMLflowConfig(profile_id, experiment_name, "system")
            /\ last'.out = "ok"
            => C12_Written("mlflow", "mlflow", profile_id,
                           [experiment_name |-> experiment_name])
       /\ \A profile_id \in ProfileIds, given \in PromptsInputs :
            /\ last = NoCall
            /\ UpdatePromptsConfig(profile_id, given[1], given[2], given[3], NoneStr)
            /\ last'.out = "ok"
            => C12_Written("prompts", "prompts", profile_id,
                           [system_prompt |-> given[1],
                            user_prompt_template |-> given[3]])]_vars

\* What a successful update_profile(profile_id, name, description) wrote.
C13_Written(profile_id, name, description) ==
    LET old == ProfileRow(store, profile_id)
        new == ProfileRow(store', profile_id)
        given == [name |-> name, description |-> description]
        changed == {f \in DOMAIN given : given[f] # NoneStr /\ given[f] # old[f]}
    IN IF changed = {}
         THEN store' = store
         ELSE /\ new = [old EXCEPT
                          !.name = IF "name" \in changed THEN name ELSE @,
                          !.description = IF "description" \in changed
                                            THEN description ELSE @,
                          !.updated_by = "system"]
              /\ store'.profiles = (store.profiles \ {old}) \cup {new}
              /\ store'.ai_infra = store.ai_infra
              /\ store'.mlflow = store.mlflow
              /\ store'.prompts = store.prompts
              /\ store'.history =
                   Append(store.history,
                          [profile_id |-> profile_id, domain |-> "profile",
                           action |-> "update", changed_by |-> "system",
                           changes |-> [f \in changed |->
                                          [old |-> old[f], new |-> given[f]]]])

\* C13: update_profile changes only the provided fields, appends exactly one
\* profile/update history entry listing exactly the fields whose value changed,
\* writes nothing (updated_by included) when nothing changed, and fails with
\* NotFound, changing nothing, for an absent profile.
C13_UpdateProfile ==
    [][\A profile_id \in ProfileIds, name \in Names \cup {NoneStr},
          description \in Descriptions :
          last = NoCall /\ UpdateProfile(profile_id, name, description, "system") =>
             CASE ~ProfileExists(store, profile_id) ->
                    last'.out = "NotFound" /\ store' = store
               [] ProfileExists(store, profile_id) /\ last'.out = "ok" ->
                    C13_Written(profile_id, name, description)
               [] OTHER -> store' = store]_vars

C13_Witness ==
    /\ last.op = "update" /\ last.out = "ok"
    /\ store.history # <<>>
    /\ LET h == store.history[Len(store.history)]
       IN /\ h.domain = "profile" /\ h.action = "update"
          /\ DOMAIN h.changes = {"name"}
          /\ ProfileRow(store, last.id).description = "d"

\* C14: every prompts history entry records a fixed placeholder as the old and
\* the new value of each changed prompt text field, never the text itself.
C14_PromptsRedacted ==
    \A i \in 1..Len(store.history) :
       LET h == store.history[i]
       IN h.domain = "prompts" =>
            \A f \in DOMAIN h.changes :
               h.changes[f] = [old |-> "...", new |-> "..."]

\* The history rows that a step keeps: those whose profile still exists.
C15_Kept == SelectSeq(store.history, LAMBDA h : ProfileExists(store', h.profile_id))

C16_Target ==
    IF active_profile_id # NoId THEN active_profile_id
                                ELSE CHOOSE d \in DefaultIds(store) : TRUE

C17_Reloading ==
    {t \in Threads : /\ thread[t].op = "reload"
                     /\ thread[t].pc \in {"lookup", "resolve", "read_configs", "store"}}

C18_Targets ==
    IF active_profile_id # NoId THEN {active_profile_id} ELSE DefaultIds(store)

\* C18: a resolution whose target profile does not exist fails and caches
\* nothing; one whose target lacks a sub-config fails and caches nothing; a
\* resolution that goes on reads the target profile, and every snapshot put in
\* the cache is the complete snapshot of the target profile.
C18_ResolutionFails ==
    [][LET before == thread[Caller]
           after == thread'[Caller]
       IN /\ before.pc = "resolve" /\ after.pc # "resolve" =>
               IF \E id \in C18_Targets : ProfileExists(store, id)
                 THEN after.pc = "read_configs" /\ after.target \in C18_Targets
                 ELSE /\ after.pc = "returned" /\ after.out = "error"
                      /\ cache' = cache
          /\ before.pc = "read_configs" /\ after.pc # "read_configs" =>
               IF HasAllConfigs(store, before.target)
                 THEN after.pc = "store"
                      => after.result = SettingsOf(store, before.target)
                 ELSE /\ after.pc = "returned" /\ after.out = "error"
                      /\ cache' = cache
          /\ cache' # cache /\ cache' # NoSettings =>
               /\ cache'.profile_id \in C18_Targets
               /\ cache' = SettingsOf(store, cache'.profile_id)]_vars

\* A snapshot that is complete and taken from one profile of the store.
C19_Whole(settings) ==
    /\ ProfileExists(store, settings.profile_id)
    /\ HasAllConfigs(store, settings.profile_id)
    /\ settings = SettingsOf(store, settings.profile_id)

\* C19: under every interleaving of reload_settings and get_settings calls,
\* each snapshot a call returns, and each cached snapshot, has the name, LLM
\* values, experiment name and prompts of the one profile whose id it carries;
\* a call returns either the snapshot it found cached or the one it loaded; the
\* cache changes only by being emptied or by an empty cache receiving a whole
\* loaded snapshot.
C19_WholeSnapshots ==
    /\ [](/\ \A t \in Threads :
               thread[t].pc = "returned" /\ thread[t].out = "ok"
                  => C19_Whole(thread[t].result)
          /\ cache # NoSettings => C19_Whole(cache))
    /\ [][/\ \A t \in Threads :
               (/\ thread[t].pc # "returned" /\ thread'[t].pc = "returned"
                /\ thread'[t].out = "ok") =>
                  \/ thread[t].pc = "lookup" /\ thread'[t].result = cache
                  \/ thread[t].pc = "store" /\ thread'[t].result = thread[t].result
          /\ cache' # cache =>
               \/ cache' = NoSettings
               \/ /\ cache = NoSettings
                  /\ \E t \in Threads : /\ thread[t].pc = "store"
                                        /\ cache' = thread[t].result]_vars

C19_Witness ==
    /\ thread[1].op = "reload" /\ thread[1].pc = "returned" /\ thread[1].out = "ok"
    /\ thread[2].op = "get" /\ thread[2].pc = "returned" /\ thread[2].out = "ok"
    /\ thread[1].result.profile_id # thread[2].result.profile_id
    /\ cache = thread[1].result

\* ------------------------------------------------ claims: the API statuses

\* C20: every route answers 404 to a not-found outcome, 400 to a validation
\* failure (a bad field value, an empty or an already used name), 403 to the
\* delete of the default profile, and 500 only to another failure.
C20_UniformStatuses ==
    response # NoResponse =>
       /\ last.out = "NotFound" => response.status = 404
       /\ last.out \in {"RequestValidationError", "IntegrityError"} =>
             response.status = 400
       /\ last.out = "Forbidden" => response.status = 403
       /\ response.status = 500 =>
             last.out \notin {"ok", "noop", "NotFound", "Forbidden",
                              "RequestValidationError", "IntegrityError"}

\* ------------------------------------------------ claims: field validation

\* C21: PUT /ai-infra/{id} for an existing profile accepts llm_temperature
\* exactly in 0.0..1.0 and llm_max_tokens exactly above 0: an accepted request
\* is answered 200 and its values are stored, a rejected one is answered with
\* a validation failure and leaves the store as it was; every stored row has
\* 0 <= llm_temperature <= 1 and llm_max_tokens > 0.
C21_AIInfraBounds ==
    /\ [](\A r \in store.ai_infra :
            /\ r.llm_temperature >= 0 /\ r.llm_temperature <= 100
            /\ r.llm_max_tokens > 0)
    /\ [][\A profile_id \in 1..ApiProfiles, given \in ApiAIInfraInputs :
            /\ last = NoCall
            /\ AIInfraOf(store, profile_id) # {}
            /\ UpdateAIInfraRoute(profile_id, given[1], given[2], given[3])
            => IF ValidAIInfraUpdate(given[2], given[3])
                 THEN /\ response'.status = 200
                      /\ LET new == CHOOSE r \in AIInfraOf(store', profile_id) : TRUE
                         IN /\ given[2] # NoneInt => new.llm_temperature = given[2]
                            /\ given[3] # NoneInt => new.llm_max_tokens = given[3]
                 ELSE /\ response'.status \in {400, 422}
                      /\ store' = store]_vars

\* C22: PUT /prompts/{id} for an existing profile with a user_prompt_template
\* that lacks {question} is answered with a validation failure and changes
\* nothing; with a template that contains {question} it is answered 200; every
\* stored user_prompt_template contains {question}.
C22_QuestionPlaceholder ==
    /\ [](\A r \in store.prompts :
            r.user_prompt_template \in {"{question}", "Q: {question}"})
    /\ [][\A profile_id \in 1..ApiProfiles, user_prompt_template \in ApiTemplates :
            /\ last = NoCall
            /\ PromptsOf(store, profile_id) # {}
            /\ user_prompt_template # NoTemplate
            /\ UpdatePromptsRoute(profile_id, "sys2", user_prompt_template)
            => IF ValidTemplate(user_prompt_template)
                 THEN response'.status = 200
                 ELSE /\ response'.status \in {400, 422}
                      /\ store' = store]_vars

\* ------------------------------------------------ claims: serving endpoints

\* How often a name occurs in a list.
Occurrences(n, names) == Cardinality({k \in 1..Len(names) : names[k] = n})

\* C23: get_available_endpoints returns each catalog name as often as the
\* catalog lists it, every name that starts with "databricks-" before every
\* other name, and each of the two groups in ascending order; when the
\* catalog call fails it returns the empty list.
C23_EndpointsSorted ==
    endpoints.called =>
       LET names == endpoints.names
       IN IF endpoints.failed
            THEN names = <<>>
            ELSE /\ Len(names) = Len(catalog)
                 /\ \A n \in EndpointNames :
                       Occurrences(n, names) = Occurrences(n, catalog)
                 /\ \A i, j \in 1..Len(names) :
                       i < j =>
                         /\ StartsWith(names[j], Prefix) => StartsWith(names[i], Prefix)
                         /\ StartsWith(names[i], Prefix) = StartsWith(names[j], Prefix)
                              => ~StrLess(names[j], names[i])

C23_Witness ==
    /\ endpoints.called /\ ~endpoints.failed
    /\ catalog = <<<<"a">>, Prefix \o <<"b">>, Prefix \o <<"a">>>>
    /\ endpoints.names = <<Prefix \o <<"a">>, Prefix \o <<"b">>, <<"a">>>>

\* ---------------------------------------- claims: the load and reload routes

\* With this cache and active id, get_settings() returns the stored settings
\* of profile id.
C24_Serves(c, active, S, id) ==
    IF c # NoSettings THEN ProfileExists(S, id) /\ c = SettingsOf(S, id)
                      ELSE ResolveTargets(S, active) = {id}

\* C24: when POST /profiles/{id}/load answers 200, get_settings() from then on
\* returns the stored settings of profile id; when POST /profiles/reload
\* without id answers 200, get_settings() returns the settings now stored for
\* the active profile, or for the default profile when none is active.
C24_HotReload ==
    [][/\ \A profile_id \in 1..FrameProfiles :
            /\ last = NoCall /\ thread[Caller].pc = "idle"
            /\ LoadProfileRoute(profile_id)
            /\ response'.status = 200
            => C24_Serves(cache', active_profile_id', store', profile_id)
       /\ (/\ last = NoCall /\ thread[Caller].pc = "idle"
           /\ ReloadConfigurationRoute(NoId)
           /\ response'.status = 200)
            => \E id \in ResolveTargets(store, active_profile_id) :
                  C24_Serves(cache', active_profile_id', store', id)]_vars

\* ------------------------------------------------ claims: the client

\* C25: under every interleaving of get_databricks_client() calls, the calls
\* that return a client return one whose connection verification succeeded,
\* calls that have returned together hold the same client, a client is
\* constructed only while the singleton is unset, and a failed initialization
\* leaves the singleton unset.
C25_ThreadSafeSingleton ==
    /\ [](\A t \in Threads :
            client_call[t].pc = "returned" /\ client_call[t].out = "ok" =>
               /\ client_call[t].got \in client_verified
               /\ \A u \in Threads :
                     client_call[u].pc = "returned" /\ client_call[u].out = "ok"
                        => client_call[u].got = client_call[t].got)
    /\ [][/\ client_made' # client_made => client_instance = NoClient
          /\ \A t \in Threads :
                (/\ client_call[t].pc # "returned"
                 /\ client_call'[t].pc = "returned"
                 /\ client_call'[t].out = "DatabricksClientError")
                   => client_instance' = NoClient]_vars

\* ------------------------------------------------ claims: the seeding

\* C26: init_db() on a store without profiles adds exactly one profile, which
\* is the default and has its three sub-configs, and no history row; on a
\* store that has a profile, so also when it is run again, it changes nothing.
C26_SeedOnce ==
    [][\A username \in SeedUsers :
          last = NoCall /\ InitDb(username) =>
             IF store.profiles = {}
               THEN /\ Cardinality(store'.profiles) = 1
                    /\ \A p \in store'.profiles :
                          /\ p.is_default
                          /\ Cardinality(AIInfraOf(store', p.id)) = 1
                          /\ Cardinality(MLflowOf(store', p.id)) = 1
                          /\ Cardinality(PromptsOf(store', p.id)) = 1
                    /\ Cardinality(store'.ai_infra) = 1
                    /\ Cardinality(store'.mlflow) = 1
                    /\ Cardinality(store'.prompts) = 1
                    /\ store'.history = store.history
               ELSE store' = store]_vars

C26_Witness ==
    /\ last.op = "init_db" /\ last.id = NoId
    /\ Cardinality(store.profiles) = 2
    /\ \E p \in store.profiles : p.name = "Default Chat" /\ ~p.is_default

\* --------------------------------- claims: concurrent and failed reloads

\* C27: under every interleaving of reload_settings calls for existing
\* profiles and get_settings calls, a reload_settings(p) that has returned has
\* returned the snapshot of profile p, and when no call is in progress the
\* cached snapshot is the one of the active profile.
C27_ConcurrentReloads ==
    /\ \A t \in Threads :
          (/\ thread[t].op = "reload" /\ thread[t].pc = "returned"
           /\ thread[t].out = "ok"
           /\ thread[t].arg # NoId /\ ProfileExists(store, thread[t].arg))
             => thread[t].result.profile_id = thread[t].arg
    /\ (/\ \A t \in Threads : thread[t].pc \in {"idle", "returned"}
        /\ cache # NoSettings
        /\ active_profile_id # NoId /\ ProfileExists(store, active_profile_id))
          => cache.profile_id = active_profile_id

\* With this active id the load of the reload in progress fails: the store
\* does not change during the call of the one caller.
C28_Fails(active) ==
    \A id \in ResolveTargets(store, active) : ~Loadable(store, id)

\* C28: a reload_settings call that fails writes neither the active profile
\* id nor the cache: its step that sets the active id leaves the id as it was
\* and its step that clears the cache leaves the cache as it was.
C28_FailedReloadKeepsState ==
    [][LET before == thread[Caller]
       IN (before.op = "reload" /\ C28_Fails(active_profile_id')) =>
             /\ before.pc = "set_active" => active_profile_id' = active_profile_id
             /\ before.pc = "clear" => cache' = cache]_vars

\* ----------------------------------------- claims: concurrent create_profile

\* C29: under every interleaving of two create_profile calls with distinct
\* names in separate transactions, starting from a store without a default
\* profile, at most one of the committed profiles is the default.
C29_ConcurrentCreates ==
    \A p, q \in store.profiles :
       p.is_default /\ q.is_default => p.id = q.id

\* ------------------------------------- claims: the cache and deleted profiles

\* C30: in every state reached by service calls and get_settings and
\* reload_settings calls, a LOADED cache holds the snapshot of a profile that
\* exists in the store, and the active profile id, when set, is the id of a
\* profile that exists.
C30_CacheRefersToExisting ==
    /\ cache # NoSettings => ProfileExists(store, cache.profile_id)
    /\ active_profile_id # NoId => ProfileExists(store, active_profile_id)

====
